---- MODULE Spec2Model ----
(***************************************************************************)
(* Asset lifecycle and assignment ledger of inventario_sistema:            *)
(* Producto.estado driven by the request handlers agregar_producto,        *)
(* editar_producto, eliminar_producto (productos/views.py) and             *)
(* agregar_asignacion, devolver_producto, confirmar_asignacion             *)
(* (asignaciones/views.py), with the model methods they call               *)
(* (AsignacionHistorial.save, AsignacionHistorial.marcar_devolucion).      *)
(*                                                                         *)
(* Spec     : requests run one at a time, each handler is one action.      *)
(*            A run serves up to MaxPrevias requests that change the       *)
(*            tables, drawn from the small input sets (Entregas, ...), and *)
(*            then one request drawn from the wide input sets, whose       *)
(*            outcome is recorded in ultima and ends the run.              *)
(* SpecConc : two agregar_asignacion requests whose database statements    *)
(*            interleave (autocommit, one statement per step).             *)
(***************************************************************************)
EXTENDS Integers, Sequences, FiniteSets, TLC

\* ------------------------------------------------------------------ bounds
MaxProductos == 2
MaxAsignaciones == 2
MaxNow == 2
MaxPrevias == 4
TicksPerDay == 2
MaxPegatinas == 2
MaxSufijo == 2

\* --------------------------------------------------------------- constants
\* None for DateTimeField / ForeignKey columns declared null=True
NULL == -1

\* Producto.ESTADOS (keys)
ESTADOS == {"DISPONIBLE", "ENTREGADO", "AVERIADO", "ROTO", "RECOGIDO", "BAJA"}

\* Producto.CONDICIONES (keys)
CONDICIONES == {"NUEVO", "USADO_BUENO", "USADO_REGULAR", "AVERIADO", "OBSOLETO"}

\* AsignacionHistorial.TIPOS_ASIGNACION (keys)
TIPOS_ASIGNACION == {"ENTREGA", "DEVOLUCION", "REPARACION", "RETORNO_REPARACION",
                     "BAJA", "PRESTAMO", "FIN_PRESTAMO"}

\* auth users; request.user.is_staff
Usuarios == {"admin", "operador"}
is_staff(u) == u = "admin"

\* Departamento rows (id -> activo) and EmpleadoReceptor rows
\* (id -> departamento, activo); master data, not changed by these handlers
Departamento == [d \in {1, 2} |-> [activo |-> TRUE]]
EmpleadoReceptor == [e \in {1, 2, 3} |->
                       [departamento |-> IF e = 2 THEN 2 ELSE 1,
                        activo |-> e # 3]]

\* ----------------------------------------------------- request conversions
\* int(value) on the decimal strings the requests carry
IntDe == [s \in {"0", "1", "2", "3"} |->
            CASE s = "0" -> 0 [] s = "1" -> 1 [] s = "2" -> 2 [] s = "3" -> 3]

\* safe_int_conversion(value, default=0)
safe_int_conversion(value) ==
    IF value = "" THEN 0
    ELSE IF value \in DOMAIN IntDe THEN IntDe[value] ELSE 0

\* the calendar: '%Y-%m-%d' texts in day order; day k is FechasTexto[k+1]
FechasTexto == << "2025-01-01", "2025-01-02", "2025-01-03", "2025-01-04" >>

\* datetime.strptime(texto, '%Y-%m-%d'): the day number, or ValueError
ValueError == -2
strptime(texto) ==
    IF \E i \in DOMAIN FechasTexto : FechasTexto[i] = texto
    THEN (CHOOSE i \in DOMAIN FechasTexto : FechasTexto[i] = texto) - 1
    ELSE ValueError

\* timezone.make_aware(naive midnight of day d): the instant in ticks
make_aware(d) == d * TicksPerDay

\* datetime.date(): the day an instant falls in
date(t) == t \div TicksPerDay

\* validate_data(data, required_fields): TRUE, or FALSE for ValidationError
validate_data(data, required_fields) ==
    \A f \in required_fields : f \in DOMAIN data /\ data[f] # ""

\* x or default (Python truthiness of a string)
o(x, default) == IF x = "" THEN default ELSE x

\* str.strip() on the texts the requests carry
strip(s) == IF s = " " THEN "" ELSE s

\* ------------------------------------------------------------------- state
VARIABLES
    productos,      \* Producto table: id -> [estado, condicion, activo]
    asignaciones,   \* AsignacionHistorial table: id -> row
    movimientos,    \* MovimientoStock table: id -> row
    now,            \* timezone.now(), in ticks
    servidas,       \* the number of requests served before the recorded one
    ultima,         \* the recorded request and its outcome
    pc,             \* SpecConc: position of each in-flight request
    loc,            \* SpecConc: the objects each in-flight request holds
    pegatinas,      \* PegatinasIdentificativas table: id -> row
    generaciones,   \* how many stickers each (producto, tipo) was generated
    catalogo,       \* SpecAlta: Producto table, the identifier columns
    alta,           \* SpecAlta: the locals of each in-flight creation
    err,            \* SpecErrores: a wrapped view call and its response
    tipo_producto   \* SpecSerie: the TipoProducto row

vars == << productos, asignaciones, movimientos, now, servidas, ultima, pc, loc, pegatinas, generaciones, catalogo, alta, err, tipo_producto >>
db == << productos, asignaciones, movimientos >>
conc == << pc, loc >>
etiquetas == << pegatinas, generaciones >>
aparte == << etiquetas, catalogo, alta, err, tipo_producto >>

Procesos == {1, 2}

\* the request/outcome record kept in ultima
Respuesta(vista, metodo, resultado, obj, usuario, tipo, fecha, estado) ==
    [vista |-> vista, metodo |-> metodo, resultado |-> resultado, obj |-> obj,
     usuario |-> usuario, tipo |-> tipo, fecha |-> fecha, estado |-> estado]

SinRespuesta == Respuesta("", "", "", 0, "", "", "", "")

\* requests are served until one is recorded: the recorded request writes
\* its outcome record, every other one counts towards MaxPrevias
Registrar(observada, respuesta) ==
    /\ ultima = SinRespuesta
    /\ IF observada
       THEN ultima' = respuesta /\ UNCHANGED servidas
       ELSE /\ servidas < MaxPrevias
            /\ servidas' = servidas + 1
            /\ UNCHANGED ultima

\* ------------------------------------------------------------ ORM helpers
\* get_object_or_404(Producto, id=producto_id, activo=True) finds a row
existe_producto(prods, producto_id) ==
    producto_id \in DOMAIN prods /\ prods[producto_id].activo

\* get_object_or_404(AsignacionHistorial, id=asignacion_id, activo=True)
existe_asignacion(asigs, asignacion_id) ==
    asignacion_id \in DOMAIN asigs /\ asigs[asignacion_id].activo

\* variant: the exists() query never finds a row
asignaciones_activas_nunca(asigs, producto_id) == FALSE

\* AsignacionHistorial.objects.filter(producto=producto,
\*     fecha_devolucion__isnull=True, activo=True).exists()
asignaciones_activas(asigs, producto_id) ==
    \E i \in DOMAIN asigs :
        /\ asigs[i].producto = producto_id
        /\ asigs[i].fecha_devolucion = NULL
        /\ asigs[i].activo

\* Producto.save(): the whole row of the in-memory object is written
Producto_save(prods, producto_id, fila) == [prods EXCEPT ![producto_id] = fila]

\* --------------------------------------------------------- agregar_asignacion
\* the fields the view requires (required_fields)
required_fields == {"producto", "departamento", "empleado", "tipo_asignacion",
                    "fecha_entrega"}

\* variant: the validation block without "fecha_entrega.date() > now.date()"
formulario_valido_sin_futuro(POST, ahora) ==
    /\ validate_data(POST, required_fields)
    /\ POST.tipo_asignacion \in TIPOS_ASIGNACION
    /\ strptime(POST.fecha_entrega) # ValueError

\* lines 40-55: validate_data, the tipo_asignacion choice and the date
\* (well-formed and not in the future); FALSE is the ValidationError branch
formulario_valido(POST, ahora) ==
    /\ validate_data(POST, required_fields)
    /\ POST.tipo_asignacion \in TIPOS_ASIGNACION
    /\ strptime(POST.fecha_entrega) # ValueError
    /\ ~(date(make_aware(strptime(POST.fecha_entrega))) > date(ahora))

\* variant: the employee is looked up without activo=True
objetos_encontrados_empleado_inactivo(prods, producto_id, departamento_id, empleado_id) ==
    /\ existe_producto(prods, producto_id)
    /\ departamento_id \in DOMAIN Departamento
    /\ Departamento[departamento_id].activo
    /\ empleado_id \in DOMAIN EmpleadoReceptor

\* lines 68-78: the three get_object_or_404 lookups all find an active row
objetos_encontrados(prods, producto_id, departamento_id, empleado_id) ==
    /\ existe_producto(prods, producto_id)
    /\ departamento_id \in DOMAIN Departamento
    /\ Departamento[departamento_id].activo
    /\ empleado_id \in DOMAIN EmpleadoReceptor
    /\ EmpleadoReceptor[empleado_id].activo

\* variant: estado_producto_entrega left to the default of Producto.condicion
nueva_asignacion_condicion_fija(producto_id, producto, departamento_id, empleado_id, tipo, fecha_entrega, usuario) ==
    [producto |-> producto_id,
     departamento |-> departamento_id,
     empleado_receptor |-> empleado_id,
     tipo_asignacion |-> tipo,
     fecha_entrega |-> fecha_entrega,
     fecha_devolucion |-> NULL,
     motivo_devolucion |-> "",
     observaciones_devolucion |-> "",
     usuario_entrega |-> usuario,
     usuario_devolucion |-> "",
     estado_producto_entrega |-> "NUEVO",
     estado_producto_devolucion |-> "",
     confirmado_empleado |-> FALSE,
     fecha_confirmacion_empleado |-> NULL,
     activo |-> TRUE]

\* AsignacionHistorial.objects.create(...): the given fields and the model
\* defaults of every other column
nueva_asignacion(producto_id, producto, departamento_id, empleado_id, tipo, fecha_entrega, usuario) ==
    [producto |-> producto_id,
     departamento |-> departamento_id,
     empleado_receptor |-> empleado_id,
     tipo_asignacion |-> tipo,
     fecha_entrega |-> fecha_entrega,
     fecha_devolucion |-> NULL,
     motivo_devolucion |-> "",
     observaciones_devolucion |-> "",
     usuario_entrega |-> usuario,
     usuario_devolucion |-> "",
     estado_producto_entrega |-> o(producto.condicion, "BUENO"),
     estado_producto_devolucion |-> "",
     confirmado_empleado |-> FALSE,
     fecha_confirmacion_empleado |-> NULL,
     activo |-> TRUE]

\* variant: only the type ENTREGA marks the product
producto_entregado_solo_entrega(producto, tipo) ==
    IF tipo = "ENTREGA"
    THEN [producto EXCEPT !.estado = "ENTREGADO"]
    ELSE producto

\* AsignacionHistorial.save on a new record, and again lines 114-116 of the
\* view: the in-memory producto after "estado = 'ENTREGADO'" for the two
\* hand-over types, untouched for the others
producto_entregado(producto, tipo) ==
    IF tipo \in {"ENTREGA", "PRESTAMO"}
    THEN [producto EXCEPT !.estado = "ENTREGADO"]
    ELSE producto

\* variant: the view without its check of producto.estado (lines 80-82)
resultado_asignacion_sin_estado(prods, asigs, ahora, POST) ==
    LET producto_id == safe_int_conversion(POST.producto)
        departamento_id == safe_int_conversion(POST.departamento)
        empleado_id == safe_int_conversion(POST.empleado)
    IN  IF ~formulario_valido(POST, ahora) THEN "ValidationError"
        ELSE IF ~objetos_encontrados(prods, producto_id, departamento_id,
                                     empleado_id)
             THEN "BusinessLogicError"
        ELSE IF EmpleadoReceptor[empleado_id].departamento # departamento_id
             THEN "BusinessLogicError"
        ELSE IF asignaciones_activas(asigs, producto_id)
             THEN "BusinessLogicError"
        ELSE "OK"

\* variant: the view with the checks of lines 80-82 and 88-96 in one test
\* that lets a product through when it is merely free of open assignments
resultado_asignacion_solo_abiertas(prods, asigs, ahora, POST) ==
    LET producto_id == safe_int_conversion(POST.producto)
        departamento_id == safe_int_conversion(POST.departamento)
        empleado_id == safe_int_conversion(POST.empleado)
    IN  IF ~formulario_valido(POST, ahora) THEN "ValidationError"
        ELSE IF ~objetos_encontrados(prods, producto_id, departamento_id,
                                     empleado_id)
             THEN "BusinessLogicError"
        ELSE IF EmpleadoReceptor[empleado_id].departamento # departamento_id
             THEN "BusinessLogicError"
        ELSE IF /\ prods[producto_id].estado = "ENTREGADO"
                /\ asignaciones_activas(asigs, producto_id)
             THEN "BusinessLogicError"
        ELSE "OK"

\* the outcome of a POST, decided in the order of the view's checks
resultado_asignacion(prods, asigs, ahora, POST) ==
    LET producto_id == safe_int_conversion(POST.producto)
        departamento_id == safe_int_conversion(POST.departamento)
        empleado_id == safe_int_conversion(POST.empleado)
    IN  IF ~formulario_valido(POST, ahora) THEN "ValidationError"
        ELSE IF ~objetos_encontrados(prods, producto_id, departamento_id,
                                     empleado_id)
             THEN "BusinessLogicError"
        ELSE IF prods[producto_id].estado # "DISPONIBLE"
             THEN "BusinessLogicError"
        ELSE IF EmpleadoReceptor[empleado_id].departamento # departamento_id
             THEN "BusinessLogicError"
        ELSE IF asignaciones_activas(asigs, producto_id)
             THEN "BusinessLogicError"
        ELSE "OK"

agregar_asignacion(observada, usuario, metodo, POST) ==
    LET producto_id == safe_int_conversion(POST.producto)
        departamento_id == safe_int_conversion(POST.departamento)
        empleado_id == safe_int_conversion(POST.empleado)
        tipo == POST.tipo_asignacion
        fecha_entrega == make_aware(strptime(POST.fecha_entrega))
        resultado == IF metodo = "POST"
                     THEN resultado_asignacion(productos, asignaciones, now, POST)
                     ELSE "render"
        producto == producto_entregado(productos[producto_id], tipo)
    IN  /\ Registrar(observada,
               Respuesta("agregar_asignacion", metodo, resultado, producto_id,
                         usuario, tipo, POST.fecha_entrega, ""))
        /\ IF resultado = "OK"
           THEN /\ Len(asignaciones) < MaxAsignaciones
                /\ asignaciones' = Append(asignaciones,
                       nueva_asignacion(producto_id, productos[producto_id],
                                        departamento_id, empleado_id, tipo,
                                        fecha_entrega, usuario))
                /\ productos' = Producto_save(
                       Producto_save(productos, producto_id, producto),
                       producto_id, producto_entregado(producto, tipo))
           ELSE UNCHANGED << productos, asignaciones >>
        /\ UNCHANGED << movimientos, now, conc, aparte >>

\* ---------------------------------------------------------- devolver_producto
\* variant: MANTENIMIENTO falls into the default branch
estado_tras_devolucion_sin_mantenimiento(estado_producto) ==
    IF estado_producto = "AVERIADO" THEN "AVERIADO"
    ELSE "DISPONIBLE"

\* the producto.estado chosen by marcar_devolucion for a truthy estado_producto
estado_tras_devolucion(estado_producto) ==
    IF estado_producto = "AVERIADO" THEN "AVERIADO"
    ELSE IF estado_producto = "MANTENIMIENTO" THEN "MANTENIMIENTO"
    ELSE "DISPONIBLE"

\* variant: marcar_devolucion without "self.usuario_devolucion = usuario"
marcar_devolucion_sin_usuario(asignacion, ahora, usuario, motivo, observaciones, estado_producto) ==
    [asignacion EXCEPT
        !.fecha_devolucion = ahora,
        !.motivo_devolucion = IF motivo # "" THEN motivo ELSE @,
        !.observaciones_devolucion =
            IF observaciones # "" THEN observaciones ELSE @,
        !.estado_producto_devolucion =
            IF estado_producto # "" THEN estado_producto ELSE @]

\* AsignacionHistorial.marcar_devolucion: the assignment row it saves
marcar_devolucion(asignacion, ahora, usuario, motivo, observaciones, estado_producto) ==
    [asignacion EXCEPT
        !.fecha_devolucion = ahora,
        !.usuario_devolucion = usuario,
        !.motivo_devolucion = IF motivo # "" THEN motivo ELSE @,
        !.observaciones_devolucion =
            IF observaciones # "" THEN observaciones ELSE @,
        !.estado_producto_devolucion =
            IF estado_producto # "" THEN estado_producto ELSE @]

\* AsignacionHistorial.marcar_devolucion: the producto row it saves
\* (self.producto.save() runs only for a truthy estado_producto)
producto_devuelto(producto, estado_producto) ==
    IF estado_producto # ""
    THEN [producto EXCEPT !.estado = estado_tras_devolucion(estado_producto)]
    ELSE producto

\* variant: every return is recorded as a TRANSFERENCIA
movimiento_devolucion_transferencia(asignacion, usuario, estado_producto) ==
    [producto |-> asignacion.producto,
     tipo_movimiento |-> "TRANSFERENCIA",
     usuario |-> usuario,
     ubicacion_origen |-> asignacion.departamento,
     ubicacion_destino |-> IF estado_producto = "DISPONIBLE" THEN "Almacen"
                           ELSE "Taller"]

\* MovimientoStock.objects.create(...) of the return
movimiento_devolucion(asignacion, usuario, estado_producto) ==
    [producto |-> asignacion.producto,
     tipo_movimiento |-> IF estado_producto = "AVERIADO" THEN "BAJA"
                         ELSE "TRANSFERENCIA",
     usuario |-> usuario,
     ubicacion_origen |-> asignacion.departamento,
     ubicacion_destino |-> IF estado_producto = "DISPONIBLE" THEN "Almacen"
                           ELSE "Taller"]

\* variant: the view without its "if asignacion.fecha_devolucion" (330-333)
resultado_devolucion_repetible(asigs, metodo, asignacion_id, POST) ==
    IF asignacion_id = 0 THEN "id_invalido"
    ELSE IF ~existe_asignacion(asigs, asignacion_id) THEN "Http404"
    ELSE IF metodo = "GET" THEN "render"
    ELSE IF metodo # "POST" THEN "metodo_no_permitido"
    ELSE IF POST.fecha_devolucion = "" \/ POST.estado_producto = ""
         THEN "campos_obligatorios"
    ELSE IF strptime(POST.fecha_devolucion) = ValueError THEN "fecha_invalida"
    ELSE IF make_aware(strptime(POST.fecha_devolucion))
                < asigs[asignacion_id].fecha_entrega
         THEN "fecha_anterior"
    ELSE "OK"

\* the outcome of the request, decided in the order of the view's checks
resultado_devolucion(asigs, metodo, asignacion_id, POST) ==
    IF asignacion_id = 0 THEN "id_invalido"
    ELSE IF ~existe_asignacion(asigs, asignacion_id) THEN "Http404"
    ELSE IF metodo = "GET" THEN "render"
    ELSE IF metodo # "POST" THEN "metodo_no_permitido"
    ELSE IF asigs[asignacion_id].fecha_devolucion # NULL THEN "ya_devuelta"
    ELSE IF POST.fecha_devolucion = "" \/ POST.estado_producto = ""
         THEN "campos_obligatorios"
    ELSE IF strptime(POST.fecha_devolucion) = ValueError THEN "fecha_invalida"
    ELSE IF make_aware(strptime(POST.fecha_devolucion))
                < asigs[asignacion_id].fecha_entrega
         THEN "fecha_anterior"
    ELSE "OK"

devolver_producto(observada, usuario, metodo, asignacion_id, POST) ==
    LET resultado == resultado_devolucion(asignaciones, metodo, asignacion_id,
                                          POST)
        estado_producto == POST.estado_producto
        observaciones == strip(POST.observaciones_devolucion)
        motivo_devolucion == strip(POST.motivo_devolucion)
        fecha_devolucion_dt == make_aware(strptime(POST.fecha_devolucion))
        asignacion == [asignaciones[asignacion_id] EXCEPT
                          !.fecha_devolucion = fecha_devolucion_dt]
        devuelta == marcar_devolucion(asignacion, now, usuario,
                                      motivo_devolucion, observaciones,
                                      estado_producto)
    IN  /\ Registrar(observada,
               Respuesta("devolver_producto", metodo, resultado, asignacion_id,
                         usuario, "", POST.fecha_devolucion, estado_producto))
        /\ IF resultado = "OK"
           THEN /\ productos' = Producto_save(productos, asignacion.producto,
                       producto_devuelto(productos[asignacion.producto],
                                         estado_producto))
                /\ asignaciones' = [asignaciones EXCEPT ![asignacion_id] = devuelta]
                /\ movimientos' = Append(movimientos,
                       movimiento_devolucion(devuelta, usuario, estado_producto))
           ELSE UNCHANGED db
        /\ UNCHANGED << now, conc, aparte >>

\* -------------------------------------------------------- confirmar_asignacion
\* variant: the view without its check of confirmado_empleado
resultado_confirmacion_repetible(asigs, metodo, asignacion_id) ==
    IF metodo # "POST" THEN "BusinessLogicError"
    ELSE IF asignacion_id = 0 THEN "BusinessLogicError"
    ELSE IF ~existe_asignacion(asigs, asignacion_id) THEN "BusinessLogicError"
    ELSE IF asigs[asignacion_id].fecha_devolucion # NULL
         THEN "BusinessLogicError"
    ELSE "OK"

\* variant: the view without its check of fecha_devolucion
resultado_confirmacion_devuelta(asigs, metodo, asignacion_id) ==
    IF metodo # "POST" THEN "BusinessLogicError"
    ELSE IF asignacion_id = 0 THEN "BusinessLogicError"
    ELSE IF ~existe_asignacion(asigs, asignacion_id) THEN "BusinessLogicError"
    ELSE IF asigs[asignacion_id].confirmado_empleado THEN "BusinessLogicError"
    ELSE "OK"

\* the outcome of the request: every refusal is a BusinessLogicError
resultado_confirmacion(asigs, metodo, asignacion_id) ==
    IF metodo # "POST" THEN "BusinessLogicError"
    ELSE IF asignacion_id = 0 THEN "BusinessLogicError"
    ELSE IF ~existe_asignacion(asigs, asignacion_id) THEN "BusinessLogicError"
    ELSE IF asigs[asignacion_id].confirmado_empleado THEN "BusinessLogicError"
    ELSE IF asigs[asignacion_id].fecha_devolucion # NULL
         THEN "BusinessLogicError"
    ELSE "OK"

confirmar_asignacion(observada, usuario, metodo, asignacion_id) ==
    LET resultado == resultado_confirmacion(asignaciones, metodo, asignacion_id)
    IN  /\ Registrar(observada,
               Respuesta("confirmar_asignacion", metodo, resultado,
                         asignacion_id, usuario, "", "", ""))
        /\ IF resultado = "OK"
           THEN asignaciones' = [asignaciones EXCEPT ![asignacion_id] =
                    [@ EXCEPT !.confirmado_empleado = TRUE,
                              !.fecha_confirmacion_empleado = now]]
           ELSE UNCHANGED asignaciones
        /\ UNCHANGED << productos, movimientos, now, conc, aparte >>

\* ------------------------------------------------------------ product views
\* ProductoForm.is_valid() for the two choice fields estado and condicion
\* (the other fields of the form are taken as valid)
ProductoForm_is_valid(form) ==
    form.estado \in ESTADOS /\ form.condicion \in CONDICIONES

agregar_producto(observada, usuario, metodo, form) ==
    LET resultado == IF metodo # "POST" THEN "render"
                     ELSE IF ~ProductoForm_is_valid(form) THEN "form_invalido"
                     ELSE "OK"
    IN  /\ IF resultado = "OK"
           THEN /\ Len(productos) < MaxProductos
                /\ productos' = Append(productos,
                       [estado |-> form.estado, condicion |-> form.condicion,
                        activo |-> TRUE])
                /\ Registrar(observada,
                       Respuesta("agregar_producto", metodo, resultado,
                                 Len(productos) + 1, usuario, "", "", form.estado))
           ELSE /\ UNCHANGED productos
                /\ Registrar(observada,
                       Respuesta("agregar_producto", metodo, resultado, 0,
                                 usuario, "", "", form.estado))
        /\ UNCHANGED << asignaciones, movimientos, now, conc, aparte >>

editar_producto(observada, usuario, metodo, producto_id, form) ==
    LET resultado == IF producto_id = 0 THEN "error"
                     ELSE IF ~existe_producto(productos, producto_id)
                          THEN "error"
                     ELSE IF metodo # "POST" THEN "render"
                     ELSE IF ~ProductoForm_is_valid(form) THEN "form_invalido"
                     ELSE "OK"
    IN  /\ Registrar(observada,
               Respuesta("editar_producto", metodo, resultado, producto_id,
                         usuario, "", "", form.estado))
        /\ IF resultado = "OK"
           THEN productos' = Producto_save(productos, producto_id,
                    [productos[producto_id] EXCEPT
                        !.estado = form.estado, !.condicion = form.condicion])
           ELSE UNCHANGED productos
        /\ UNCHANGED << asignaciones, movimientos, now, conc, aparte >>

\* variant: the soft delete also writes the estado BAJA
producto_eliminado_de_baja(producto) == [producto EXCEPT !.activo = FALSE, !.estado = "BAJA"]

\* producto.activo = False
producto_eliminado(producto) == [producto EXCEPT !.activo = FALSE]

\* Producto has no usuario_creacion attribute: for a user who is not staff
\* the permission test raises before any write
resultado_eliminacion(prods, asigs, usuario, metodo, producto_id) ==
    IF metodo # "POST" THEN "BusinessLogicError"
    ELSE IF producto_id = 0 THEN "BusinessLogicError"
    ELSE IF ~existe_producto(prods, producto_id) THEN "BusinessLogicError"
    ELSE IF ~is_staff(usuario) THEN "AttributeError"
    ELSE IF asignaciones_activas(asigs, producto_id) THEN "BusinessLogicError"
    ELSE "OK"

eliminar_producto(observada, usuario, metodo, producto_id) ==
    LET resultado == resultado_eliminacion(productos, asignaciones, usuario,
                                           metodo, producto_id)
    IN  /\ Registrar(observada,
               Respuesta("eliminar_producto", metodo, resultado, producto_id,
                         usuario, "", "", ""))
        /\ IF resultado = "OK"
           THEN productos' = Producto_save(productos, producto_id,
                    producto_eliminado(productos[producto_id]))
           ELSE UNCHANGED productos
        /\ UNCHANGED << asignaciones, movimientos, now, conc, aparte >>

\* the clock advances between requests
Tick ==
    /\ ultima = SinRespuesta
    /\ now < MaxNow
    /\ now' = now + 1
    /\ UNCHANGED << db, servidas, ultima, conc, aparte >>

\* ------------------------------------------------------------ request inputs
Metodos == {"GET", "POST"}

\* the wide input sets, of the recorded request
FechasPeticion ==
    {"", "01/01/2025"} \cup {FechasTexto[i] : i \in 1..(date(MaxNow) + 2)}

\* (departamento, empleado) pairs: employee 1 in his department, employee 1
\* in another department, the inactive employee 3 in his department
PeticionesAsignacion ==
    {r \in [producto : {"1", "2", "x"},
            departamento : {"1", "2"},
            empleado : {"1", "3"},
            tipo_asignacion : {"ENTREGA", "PRESTAMO", "REPARACION", "OTRO"},
            fecha_entrega : FechasPeticion] :
        r.empleado = "3" => r.departamento = "1"}

PeticionesDevolucion ==
    [fecha_devolucion : FechasPeticion,
     estado_producto : {"", "AVERIADO", "MANTENIMIENTO", "DISPONIBLE",
                        "USADO_BUENO"},
     observaciones_devolucion : {"", "nota"},
     motivo_devolucion : {" ", "AVERIA"}]

FormulariosProducto ==
    [estado : {"DISPONIBLE", "ENTREGADO", "ROTO", "MANTENIMIENTO"},
     condicion : {"NUEVO", "USADO_BUENO", ""}]

\* the small input sets, of the requests that lead up to the recorded one
Altas == {[estado |-> "DISPONIBLE", condicion |-> "NUEVO"]}

Ediciones == {[estado |-> "DISPONIBLE", condicion |-> "USADO_BUENO"],
              [estado |-> "ENTREGADO", condicion |-> "NUEVO"]}

Entregas ==
    [producto : {"1", "2"}, departamento : {"1"}, empleado : {"1"},
     tipo_asignacion : {"ENTREGA", "REPARACION"},
     fecha_entrega : {FechasTexto[i] : i \in 1..(date(MaxNow) + 1)}]

Retornos ==
    [fecha_devolucion : {FechasTexto[i] : i \in 1..(date(MaxNow) + 1)},
     estado_producto : {"AVERIADO", "DISPONIBLE"},
     observaciones_devolucion : {""},
     motivo_devolucion : {"AVERIA"}]

\* the empty bodies of the requests that carry no form
SinPOST == [producto |-> "", departamento |-> "", empleado |-> "",
            tipo_asignacion |-> "", fecha_entrega |-> ""]
SinDevolucion == [fecha_devolucion |-> "", estado_producto |-> "",
                  observaciones_devolucion |-> "", motivo_devolucion |-> ""]
SinFormulario == [estado |-> "", condicion |-> ""]

\* what an in-flight request holds before it starts
SinPeticion == [usuario |-> "", POST |-> SinPOST, resultado |-> "",
                producto |-> [estado |-> "", condicion |-> "", activo |-> FALSE]]

\* PegatinasIdentificativas.TIPOS_PEGATINA
TIPOS_PEGATINA == {"QR", "CODIGO_BARRAS", "ETIQUETA_SIMPLE", "ETIQUETA_COMPLETA"}

\* a creation request that has not started
SinAlta == [pc |-> "idle", numero_serie |-> "", id_interno |-> "",
            resultado |-> ""]

\* no wrapped view has been called
SinError == [etapa |-> "idle", ajax_response |-> FALSE, redirect_on_error |-> "", cabecera |-> "", is_staff |-> FALSE, clase |-> "", mensaje |-> "", error_type |-> "", respuesta |-> "", status |-> 0, success |-> TRUE, destino |-> "", aviso |-> FALSE, technical_details |-> "", propagada |-> FALSE]

InitAparte ==
    /\ pegatinas = << >>
    /\ generaciones = [k \in (1..MaxProductos) \X TIPOS_PEGATINA |-> 0]
    /\ catalogo = << >>
    /\ alta = [p \in Procesos |-> SinAlta]
    /\ err = SinError
    /\ tipo_producto = [codigo_prefijo |-> "MV", ultimo_numero |-> 0]

\* --------------------------------------------------------------------- Spec
Init ==
    /\ productos = << >>
    /\ asignaciones = << >>
    /\ movimientos = << >>
    /\ now = 0
    /\ servidas = 0
    /\ ultima = SinRespuesta
    /\ pc = [p \in Procesos |-> "idle"]
    /\ loc = [p \in Procesos |-> SinPeticion]
    /\ InitAparte

\* the requests that lead up to the recorded one
Previas ==
    \/ /\ ultima = SinRespuesta
       /\ \E f \in Altas :
             agregar_producto(FALSE, "admin", "POST", f) /\ db' # db
    \/ /\ ultima = SinRespuesta
       /\ \E id \in 1..MaxProductos, f \in Ediciones :
             editar_producto(FALSE, "admin", "POST", id, f) /\ db' # db
    \/ /\ ultima = SinRespuesta
       /\ \E id \in 1..MaxProductos :
             eliminar_producto(FALSE, "admin", "POST", id) /\ db' # db
    \/ /\ ultima = SinRespuesta
       /\ \E r \in Entregas :
             agregar_asignacion(FALSE, "admin", "POST", r) /\ db' # db
    \/ /\ ultima = SinRespuesta
       /\ \E id \in 1..MaxAsignaciones, r \in Retornos :
             devolver_producto(FALSE, "admin", "POST", id, r) /\ db' # db
    \/ /\ ultima = SinRespuesta
       /\ \E id \in 1..MaxAsignaciones :
             confirmar_asignacion(FALSE, "admin", "POST", id) /\ db' # db

\* the recorded request
Observada ==
    \/ /\ ultima = SinRespuesta
       /\ \E u \in Usuarios : agregar_producto(TRUE, u, "GET", SinFormulario)
    \/ /\ ultima = SinRespuesta
       /\ \E u \in Usuarios, f \in FormulariosProducto :
             agregar_producto(TRUE, u, "POST", f)
    \/ /\ ultima = SinRespuesta
       /\ \E u \in Usuarios, id \in 0..MaxProductos :
             editar_producto(TRUE, u, "GET", id, SinFormulario)
    \/ /\ ultima = SinRespuesta
       /\ \E u \in Usuarios, id \in 0..MaxProductos, f \in FormulariosProducto :
             editar_producto(TRUE, u, "POST", id, f)
    \/ /\ ultima = SinRespuesta
       /\ \E u \in Usuarios, m \in Metodos, id \in 0..MaxProductos :
             eliminar_producto(TRUE, u, m, id)
    \/ /\ ultima = SinRespuesta
       /\ \E u \in Usuarios : agregar_asignacion(TRUE, u, "GET", SinPOST)
    \/ /\ ultima = SinRespuesta
       /\ \E u \in Usuarios, r \in PeticionesAsignacion :
             agregar_asignacion(TRUE, u, "POST", r)
    \/ /\ ultima = SinRespuesta
       /\ \E u \in Usuarios, m \in {"GET", "PUT"}, id \in 0..MaxAsignaciones :
             devolver_producto(TRUE, u, m, id, SinDevolucion)
    \/ /\ ultima = SinRespuesta
       /\ \E u \in Usuarios, id \in 0..MaxAsignaciones, r \in PeticionesDevolucion :
             devolver_producto(TRUE, u, "POST", id, r)
    \/ /\ ultima = SinRespuesta
       /\ \E u \in Usuarios, m \in Metodos, id \in 0..MaxAsignaciones :
             confirmar_asignacion(TRUE, u, m, id)

Next ==
    \/ Previas
    \/ Observada
    \/ Tick

Spec == Init /\ [][Next]_vars

\* ----------------------------------------------------------------- SpecConc
\* agregar_asignacion statement by statement: each step is one database
\* statement (autocommit) with the Python code that precedes it; loc[p] holds
\* the request and the producto object the view loaded
PeticionesConc ==
    [producto : {"1", "2", "x"}, departamento : {"1"}, empleado : {"1"},
     tipo_asignacion : {"ENTREGA", "PRESTAMO", "REPARACION"},
     fecha_entrega : {FechasTexto[1]}]

c_terminar(p, resultado) ==
    /\ pc' = [pc EXCEPT ![p] = "done"]
    /\ loc' = [loc EXCEPT ![p].resultado = resultado]

\* lines 28-78: form validation and the get_object_or_404 lookups
c_inicio(p, usuario, POST) ==
    LET producto_id == safe_int_conversion(POST.producto)
        departamento_id == safe_int_conversion(POST.departamento)
        empleado_id == safe_int_conversion(POST.empleado)
    IN  /\ pc[p] = "idle"
        /\ IF ~formulario_valido(POST, now)
           THEN /\ pc' = [pc EXCEPT ![p] = "done"]
                /\ loc' = [loc EXCEPT ![p] =
                       [usuario |-> usuario, POST |-> POST,
                        resultado |-> "ValidationError",
                        producto |-> SinPeticion.producto]]
           ELSE IF ~objetos_encontrados(productos, producto_id,
                                        departamento_id, empleado_id)
           THEN /\ pc' = [pc EXCEPT ![p] = "done"]
                /\ loc' = [loc EXCEPT ![p] =
                       [usuario |-> usuario, POST |-> POST,
                        resultado |-> "BusinessLogicError",
                        producto |-> SinPeticion.producto]]
           ELSE /\ pc' = [pc EXCEPT ![p] = "validar"]
                /\ loc' = [loc EXCEPT ![p] =
                       [usuario |-> usuario, POST |-> POST, resultado |-> "",
                        producto |-> productos[producto_id]]]
        /\ UNCHANGED << db, now, servidas, ultima, aparte >>

\* lines 80-96: the checks on the loaded objects and the exists() query
c_validar(p) ==
    LET POST == loc[p].POST
        producto_id == safe_int_conversion(POST.producto)
        departamento_id == safe_int_conversion(POST.departamento)
        empleado_id == safe_int_conversion(POST.empleado)
    IN  /\ pc[p] = "validar"
        /\ IF \/ loc[p].producto.estado # "DISPONIBLE"
              \/ EmpleadoReceptor[empleado_id].departamento # departamento_id
              \/ asignaciones_activas(asignaciones, producto_id)
           THEN c_terminar(p, "BusinessLogicError")
           ELSE /\ pc' = [pc EXCEPT ![p] = "crear"]
                /\ UNCHANGED loc
        /\ UNCHANGED << db, now, servidas, ultima, aparte >>

\* AsignacionHistorial.save, lines 189-192: producto.estado and producto.save()
c_crear(p) ==
    LET POST == loc[p].POST
        producto_id == safe_int_conversion(POST.producto)
        producto == producto_entregado(loc[p].producto, POST.tipo_asignacion)
    IN  /\ pc[p] = "crear"
        /\ pc' = [pc EXCEPT ![p] = "insertar"]
        /\ loc' = [loc EXCEPT ![p].producto = producto]
        /\ IF POST.tipo_asignacion \in {"ENTREGA", "PRESTAMO"}
           THEN productos' = Producto_save(productos, producto_id, producto)
           ELSE UNCHANGED productos
        /\ UNCHANGED << asignaciones, movimientos, now, servidas, ultima, aparte >>

\* AsignacionHistorial.save, line 194: the INSERT of the new record
c_insertar(p) ==
    LET POST == loc[p].POST
    IN  /\ pc[p] = "insertar"
        /\ Len(asignaciones) < MaxAsignaciones
        /\ pc' = [pc EXCEPT ![p] = "guardar"]
        /\ asignaciones' = Append(asignaciones,
               nueva_asignacion(safe_int_conversion(POST.producto),
                                loc[p].producto,
                                safe_int_conversion(POST.departamento),
                                safe_int_conversion(POST.empleado),
                                POST.tipo_asignacion,
                                make_aware(strptime(POST.fecha_entrega)),
                                loc[p].usuario))
        /\ UNCHANGED << productos, movimientos, now, servidas, ultima, loc, aparte >>

\* lines 113-121 of the view: producto.estado and producto.save() again
c_guardar(p) ==
    LET POST == loc[p].POST
        producto_id == safe_int_conversion(POST.producto)
        producto == producto_entregado(loc[p].producto, POST.tipo_asignacion)
    IN  /\ pc[p] = "guardar"
        /\ pc' = [pc EXCEPT ![p] = "done"]
        /\ loc' = [loc EXCEPT ![p].producto = producto, ![p].resultado = "OK"]
        /\ IF POST.tipo_asignacion \in {"ENTREGA", "PRESTAMO"}
           THEN productos' = Producto_save(productos, producto_id, producto)
           ELSE UNCHANGED productos
        /\ UNCHANGED << asignaciones, movimientos, now, servidas, ultima, aparte >>

\* the products stand as agregar_producto creates them
InitConc ==
    /\ productos = [i \in 1..MaxProductos |->
                      [estado |-> "DISPONIBLE", condicion |-> "NUEVO",
                       activo |-> TRUE]]
    /\ asignaciones = << >>
    /\ movimientos = << >>
    /\ now = 0
    /\ servidas = 0
    /\ ultima = SinRespuesta
    /\ pc = [p \in Procesos |-> "idle"]
    /\ loc = [p \in Procesos |-> SinPeticion]
    /\ InitAparte

NextConc ==
    \E p \in Procesos :
        \/ \E u \in Usuarios, r \in PeticionesConc : c_inicio(p, u, r)
        \/ c_validar(p)
        \/ c_crear(p)
        \/ c_insertar(p)
        \/ c_guardar(p)

SpecConc == InitConc /\ [][NextConc]_vars

\* ------------------------------------------------------------------ claims
\* the open active assignments of a product
abiertas(p) ==
    {i \in DOMAIN asignaciones :
        /\ asignaciones[i].producto = p
        /\ asignaciones[i].fecha_devolucion = NULL
        /\ asignaciones[i].activo}

\* this step saved a new assignment record of product p
asignacion_creada(p) ==
    /\ Len(asignaciones') = Len(asignaciones) + 1
    /\ asignaciones'[Len(asignaciones')].producto = p

\* this step is a successful editar_producto of p whose form submits ENTREGADO
edicion_a_entregado(p) ==
    \E observada \in BOOLEAN, u \in Usuarios,
       form \in FormulariosProducto \cup Ediciones :
        /\ form.estado = "ENTREGADO"
        /\ ProductoForm_is_valid(form)
        /\ editar_producto(observada, u, "POST", p, form)

\* C1 as stated: a product's estado changes to ENTREGADO only as the effect of
\* a successful assignment creation for that product, and the estado
\* immediately before the change was DISPONIBLE.
C1_Original ==
    [][\A p \in DOMAIN productos :
          (productos[p].estado # "ENTREGADO" /\ productos'[p].estado = "ENTREGADO")
              => (asignacion_creada(p) /\ productos[p].estado = "DISPONIBLE")]_vars

\* C1: a product's estado changes to ENTREGADO only as the effect of a
\* successful assignment creation for that product, the estado immediately
\* before being DISPONIBLE, or as the effect of a successful editar_producto
\* of that product whose form submits estado ENTREGADO.
C1_Theorem ==
    [][\A p \in DOMAIN productos :
          (productos[p].estado # "ENTREGADO" /\ productos'[p].estado = "ENTREGADO")
              => \/ asignacion_creada(p) /\ productos[p].estado = "DISPONIBLE"
                 \/ edicion_a_entregado(p)]_vars

\* a hand-over has just been saved for a product that is now ENTREGADO
C1_Witness ==
    /\ ultima.vista = "agregar_asignacion"
    /\ ultima.resultado = "OK"
    /\ ultima.tipo = "ENTREGA"
    /\ productos[ultima.obj].estado = "ENTREGADO"
    /\ abiertas(ultima.obj) # {}

\* C2 as stated: of two concurrent agregar_asignacion requests of type ENTREGA
\* for the same DISPONIBLE product at most one succeeds, and the product never
\* has two open assignments.
C2_Original ==
    (/\ loc[1].POST.tipo_asignacion = "ENTREGA"
     /\ loc[2].POST.tipo_asignacion = "ENTREGA"
     /\ loc[1].POST.producto = loc[2].POST.producto)
        => /\ ~(loc[1].resultado = "OK" /\ loc[2].resultado = "OK")
           /\ \A p \in DOMAIN productos : Cardinality(abiertas(p)) <= 1

\* C3: under sequential requests every product has at most one active
\* assignment whose fecha_devolucion is null.
C3_Theorem == \A p \in DOMAIN productos : Cardinality(abiertas(p)) <= 1

\* a creation was refused for a product that is DISPONIBLE and has an open
\* assignment (one of a type that leaves the estado alone)
C3_Witness ==
    /\ ultima.vista = "agregar_asignacion"
    /\ ultima.metodo = "POST"
    /\ ultima.resultado = "BusinessLogicError"
    /\ ultima.obj \in DOMAIN productos
    /\ productos[ultima.obj].estado = "DISPONIBLE"
    /\ productos[ultima.obj].activo
    /\ Cardinality(abiertas(ultima.obj)) = 1

\* the recorded request is a POST of agregar_asignacion of a hand-over type
\* for an existing product whose estado is not DISPONIBLE
entrega_de_no_disponible ==
    /\ ultima'.vista = "agregar_asignacion"
    /\ ultima'.metodo = "POST"
    /\ ultima'.tipo \in {"ENTREGA", "PRESTAMO"}
    /\ ultima'.obj \in DOMAIN productos
    /\ productos[ultima'.obj].estado # "DISPONIBLE"

entrega_lograda(r) ==
    /\ r.vista = "agregar_asignacion"
    /\ r.resultado = "OK"
    /\ r.tipo \in {"ENTREGA", "PRESTAMO"}

\* C5: after a successful creation of type ENTREGA or PRESTAMO the product's
\* estado is ENTREGADO and the new assignment has fecha_devolucion null,
\* confirmado_empleado false, usuario_entrega the requesting user,
\* fecha_entrega the submitted date and estado_producto_entrega the product's
\* condicion at that moment.
C5_Theorem ==
    [][entrega_lograda(ultima')
          => LET p == ultima'.obj
                 a == asignaciones'[Len(asignaciones')]
             IN  /\ Len(asignaciones') = Len(asignaciones) + 1
                 /\ productos'[p].estado = "ENTREGADO"
                 /\ a.producto = p
                 /\ a.activo
                 /\ a.fecha_devolucion = NULL
                 /\ a.confirmado_empleado = FALSE
                 /\ a.usuario_entrega = ultima'.usuario
                 /\ a.fecha_entrega = make_aware(strptime(ultima'.fecha))
                 /\ a.estado_producto_entrega = productos[p].condicion]_vars

\* a loan of a used product, dated before today, saved for the second user
C5_Witness ==
    /\ entrega_lograda(ultima)
    /\ ultima.tipo = "PRESTAMO"
    /\ ultima.usuario = "operador"
    /\ asignaciones[Len(asignaciones)].estado_producto_entrega = "USADO_BUENO"
    /\ asignaciones[Len(asignaciones)].fecha_entrega < make_aware(date(now))

\* the recorded request is a return that went through
devolucion_lograda ==
    /\ ultima.vista = "devolver_producto"
    /\ ultima.resultado = "OK"

\* the product of the assignment the recorded request names
producto_devolucion == productos[asignaciones[ultima.obj].producto]

\* C6: a successful return with condition c leaves the product's estado
\* AVERIADO for c = AVERIADO, MANTENIMIENTO for c = MANTENIMIENTO and
\* DISPONIBLE for every other non-empty c.
C6_Theorem ==
    devolucion_lograda
        => /\ ultima.estado # ""
           /\ ultima.estado = "AVERIADO"
                 => producto_devolucion.estado = "AVERIADO"
           /\ ultima.estado = "MANTENIMIENTO"
                 => producto_devolucion.estado = "MANTENIMIENTO"
           /\ ultima.estado \notin {"AVERIADO", "MANTENIMIENTO"}
                 => producto_devolucion.estado = "DISPONIBLE"

\* a return with condition MANTENIMIENTO went through
C6_Witness ==
    /\ devolucion_lograda
    /\ ultima.estado = "MANTENIMIENTO"
    /\ producto_devolucion.estado = "MANTENIMIENTO"

\* C7: after a successful devolver_producto with condition c the assignment
\* has a non-null fecha_devolucion, estado_producto_devolucion = c and
\* usuario_devolucion the requesting user; with c = AVERIADO the product's
\* estado is AVERIADO.
C7_Theorem ==
    devolucion_lograda
        => LET a == asignaciones[ultima.obj]
           IN  /\ a.fecha_devolucion # NULL
               /\ a.estado_producto_devolucion = ultima.estado
               /\ a.usuario_devolucion = ultima.usuario
               /\ ultima.estado = "AVERIADO"
                     => productos[a.producto].estado = "AVERIADO"

\* the second user returned a product as AVERIADO
C7_Witness ==
    /\ devolucion_lograda
    /\ ultima.estado = "AVERIADO"
    /\ ultima.usuario = "operador"
    /\ asignaciones[ultima.obj].usuario_devolucion = "operador"
    /\ producto_devolucion.estado = "AVERIADO"

\* C8: a devolver_producto POST on an assignment whose fecha_devolucion is
\* already set is refused and changes nothing: the assignment's return
\* fields, the product's estado and the stock movements stay as they were.
C8_Theorem ==
    [][(/\ ultima'.vista = "devolver_producto"
        /\ ultima'.metodo = "POST"
        /\ ultima'.obj \in DOMAIN asignaciones
        /\ asignaciones[ultima'.obj].fecha_devolucion # NULL)
          => /\ ultima'.resultado \in {"ya_devuelta", "Http404"}
             /\ UNCHANGED db]_vars

\* a complete return form was refused for an assignment already returned
C8_Witness ==
    /\ ultima.vista = "devolver_producto"
    /\ ultima.metodo = "POST"
    /\ ultima.resultado = "ya_devuelta"
    /\ ultima.estado = "AVERIADO"
    /\ strptime(ultima.fecha) # ValueError
    /\ asignaciones[ultima.obj].fecha_devolucion # NULL
    /\ asignaciones[ultima.obj].estado_producto_devolucion = "DISPONIBLE"

\* C9: a confirmar_asignacion request on an assignment whose
\* confirmado_empleado is already true is rejected with a BusinessLogicError
\* and changes nothing.
C9_Theorem ==
    [][(/\ ultima'.vista = "confirmar_asignacion"
        /\ ultima'.obj \in DOMAIN asignaciones
        /\ asignaciones[ultima'.obj].confirmado_empleado)
          => /\ ultima'.resultado = "BusinessLogicError"
             /\ UNCHANGED db]_vars

\* a POST was refused for a confirmed assignment that is still open, the
\* clock having moved since the confirmation
C9_Witness ==
    /\ ultima.vista = "confirmar_asignacion"
    /\ ultima.metodo = "POST"
    /\ ultima.resultado = "BusinessLogicError"
    /\ ultima.obj \in DOMAIN asignaciones
    /\ asignaciones[ultima.obj].confirmado_empleado
    /\ asignaciones[ultima.obj].fecha_devolucion = NULL
    /\ asignaciones[ultima.obj].fecha_confirmacion_empleado < now

\* C10 as stated: every product's estado is always one of the six values of
\* Producto.ESTADOS.
C10_Original == \A p \in DOMAIN productos : productos[p].estado \in ESTADOS

\* ------------------------------------------------- AsignacionHistorial, more
\* variant: pending is read as "fecha_devolucion is null" alone
esta_pendiente_devolucion_solo_fecha(asignacion) ==
    asignacion.fecha_devolucion = NULL

\* AsignacionHistorial.esta_pendiente_devolucion
esta_pendiente_devolucion(asignacion) ==
    /\ asignacion.fecha_devolucion = NULL
    /\ asignacion.tipo_asignacion \in {"ENTREGA", "PRESTAMO"}

devolucion_anticipada ==
    /\ ultima'.vista = "devolver_producto"
    /\ ultima'.metodo = "POST"
    /\ ultima'.obj \in DOMAIN asignaciones
    /\ strptime(ultima'.fecha) # ValueError
    /\ make_aware(strptime(ultima'.fecha)) < asignaciones[ultima'.obj].fecha_entrega

\* C12: every assignment that has been returned stores a fecha_devolucion
\* greater than or equal to its fecha_entrega, and a return whose submitted
\* date is earlier than fecha_entrega is refused without changing any state.
\* (make_aware and timezone.now() are taken in one time zone.)
C12_Theorem ==
    [][/\ \A i \in DOMAIN asignaciones' :
             asignaciones'[i].fecha_devolucion # NULL
                 => asignaciones'[i].fecha_devolucion
                        >= asignaciones'[i].fecha_entrega
       /\ devolucion_anticipada
             => (ultima'.resultado # "OK" /\ UNCHANGED db)]_vars

\* a return dated before the delivery was refused for an open assignment,
\* and an earlier assignment stands returned after its delivery
C12_Witness ==
    /\ ultima.vista = "devolver_producto"
    /\ ultima.resultado = "fecha_anterior"
    /\ asignaciones[ultima.obj].fecha_devolucion = NULL
    /\ asignaciones[ultima.obj].fecha_entrega > 0
    /\ \E i \in DOMAIN asignaciones :
          /\ asignaciones[i].fecha_devolucion # NULL
          /\ asignaciones[i].fecha_devolucion > asignaciones[i].fecha_entrega

\* ----------------------------------------------------------------- SpecAlta
\* agregar_producto statement by statement in two concurrent requests, with
\* the identifier columns id_interno and numero_serie of Producto (both
\* unique=True); each request creates one product at most; catalogo holds
\* every stored row, active or not; the products all belong to one Categoria
\* whose codigo starts with "lap"

\* the 4-digit suffixes random.choices can draw: more than the rows the two
\* creations can store, as the 10^4 of the code exceed the stored products
Sufijos == 0..MaxSufijo

\* ''.join(random.choices(string.digits, k=4))
numero(n) == << "0000", "0001", "0002", "0003", "0004" >>[n + 1]

\* f"{prefijo}{numero}" with prefijo = categoria.codigo[:3].upper()
id_interno_de(n) ==
    << "LAP0000", "LAP0001", "LAP0002", "LAP0003", "LAP0004" >>[n + 1]

\* f"{año}{cat_codigo}{numero}"
numero_serie_de(n) ==
    << "2025LAP0000", "2025LAP0001", "2025LAP0002", "2025LAP0003",
       "2025LAP0004" >>[n + 1]

\* the numero_serie values a form submits: none, one that looks like a
\* generated one, one of another shape
SeriesFormulario == {"", "2025LAP0000", "SN-1"}

\* every variable the creation machine leaves alone
fuera_de_alta == << db, now, servidas, ultima, conc, etiquetas, err, tipo_producto >>

\* variant: the existence check restricted to active rows
existe_id_interno_activo(cat, id_interno) ==
    \E i \in DOMAIN cat : cat[i].id_interno = id_interno /\ cat[i].activo

\* Producto.objects.filter(id_interno=id_interno).exists()
existe_id_interno(cat, id_interno) ==
    \E i \in DOMAIN cat : cat[i].id_interno = id_interno

\* Producto.objects.filter(numero_serie=numero_serie).exists()
existe_numero_serie(cat, numero_serie) ==
    \E i \in DOMAIN cat : cat[i].numero_serie = numero_serie

\* variant: a table without the two unique constraints
viola_unique_nunca(cat, fila, pk) == FALSE

\* the unique=True constraints of id_interno and numero_serie, as the
\* database checks them when row pk (0: a new row) is written
viola_unique(cat, fila, pk) ==
    \E i \in DOMAIN cat :
        /\ i # pk
        /\ \/ cat[i].id_interno = fila.id_interno
           \/ cat[i].numero_serie = fila.numero_serie

\* lines 21-30: ProductoForm.is_valid() with clean_numero_serie, then
\* form.save(commit=False)
a_form(p, numero_serie) ==
    /\ alta[p].pc = "idle"
    /\ alta' = [alta EXCEPT ![p] =
          IF numero_serie # "" /\ existe_numero_serie(catalogo, numero_serie)
          THEN [pc |-> "done", numero_serie |-> numero_serie,
                id_interno |-> "", resultado |-> "form_invalido"]
          ELSE [pc |-> IF numero_serie = "" THEN "serie" ELSE "id",
                numero_serie |-> numero_serie, id_interno |-> "",
                resultado |-> ""]]
    /\ UNCHANGED << catalogo, fuera_de_alta >>

\* generar_numero_serie_automatico: one turn of its loop (lines 229-234);
\* resultado keeps whether a drawn candidate was taken
a_serie(p, n) ==
    /\ alta[p].pc = "serie"
    /\ alta' = [alta EXCEPT ![p] =
          IF existe_numero_serie(catalogo, numero_serie_de(n))
          THEN [@ EXCEPT !.resultado = "reintento"]
          ELSE [@ EXCEPT !.numero_serie = numero_serie_de(n), !.pc = "id"]]
    /\ UNCHANGED << catalogo, fuera_de_alta >>

\* generar_id_interno: one turn of its loop (lines 208-213)
a_id(p, n) ==
    /\ alta[p].pc = "id"
    /\ alta' = [alta EXCEPT ![p] =
          IF existe_id_interno(catalogo, id_interno_de(n))
          THEN [@ EXCEPT !.resultado = "reintento"]
          ELSE [@ EXCEPT !.id_interno = id_interno_de(n), !.pc = "insertar"]]
    /\ UNCHANGED << catalogo, fuera_de_alta >>

\* producto.save(), line 37: the INSERT; an IntegrityError is caught at line
\* 61 and no row is stored
a_insertar(p) ==
    LET fila == [id_interno |-> alta[p].id_interno,
                 numero_serie |-> alta[p].numero_serie, activo |-> TRUE]
    IN  /\ alta[p].pc = "insertar"
        /\ IF viola_unique(catalogo, fila, 0)
           THEN /\ alta' = [alta EXCEPT ![p].pc = "done",
                                        ![p].resultado = "IntegrityError"]
                /\ UNCHANGED catalogo
           ELSE /\ alta' = [alta EXCEPT ![p].pc = "done", ![p].resultado = "OK"]
                /\ catalogo' = Append(catalogo, fila)
        /\ UNCHANGED fuera_de_alta

\* eliminar_producto on a product without assignments: activo = False
a_eliminar(i) ==
    /\ i \in DOMAIN catalogo
    /\ catalogo[i].activo
    /\ catalogo' = [catalogo EXCEPT ![i].activo = FALSE]
    /\ UNCHANGED << alta, fuera_de_alta >>

\* editar_producto with a numero_serie in the form: clean_numero_serie
\* (the row itself excluded), then the UPDATE under the unique constraint
a_editar(i, numero_serie) ==
    LET fila == [catalogo[i] EXCEPT !.numero_serie = numero_serie]
    IN  /\ i \in DOMAIN catalogo
        /\ catalogo[i].activo
        /\ numero_serie # ""
        /\ ~viola_unique(catalogo, fila, i)
        /\ catalogo' = [catalogo EXCEPT ![i] = fila]
        /\ UNCHANGED << alta, fuera_de_alta >>

NextAlta ==
    \/ \E p \in Procesos, ns \in SeriesFormulario : a_form(p, ns)
    \/ \E p \in Procesos, n \in Sufijos : a_serie(p, n)
    \/ \E p \in Procesos, n \in Sufijos : a_id(p, n)
    \/ \E p \in Procesos : a_insertar(p)
    \/ \E i \in DOMAIN catalogo : a_eliminar(i)
    \/ \E i \in DOMAIN catalogo, ns \in SeriesFormulario : a_editar(i, ns)

\* random.choices draws every suffix again and again
FairAlta ==
    \A p \in Procesos, n \in Sufijos :
        WF_vars(a_serie(p, n)) /\ WF_vars(a_id(p, n))

SpecAlta == Init /\ [][NextAlta]_vars /\ FairAlta

\* ------------------------------------------------- Producto, identifiers

\* C13: in every reachable state, concurrent creations included, no two
\* stored products, active or not, share an id_interno, and no two share a
\* numero_serie (a stored numero_serie is never null: save() generates one)
C13_Theorem ==
    \A i, j \in DOMAIN catalogo :
        i # j => /\ catalogo[i].id_interno # catalogo[j].id_interno
                 /\ catalogo[i].numero_serie # catalogo[j].numero_serie
                 /\ catalogo[i].numero_serie # ""

\* a creation drew the id_interno a concurrent creation stored first, its
\* INSERT was refused, and the stored row has meanwhile been deactivated
C13_Witness ==
    \E p \in Procesos :
        /\ alta[p].resultado = "IntegrityError"
        /\ Len(catalogo) = 1
        /\ catalogo[1].id_interno = alta[p].id_interno
        /\ catalogo[1].numero_serie # alta[p].numero_serie
        /\ ~catalogo[1].activo

\* C19: generar_id_interno leaves its loop when the suffixes are drawn
\* fairly and one of them is unused, and the id it returns is the id_interno
\* of no product stored when it made its last check; likewise
\* generar_numero_serie_automatico with numero_serie
C19_Theorem ==
    /\ \A p \in Procesos : (alta[p].pc = "id") ~> (alta[p].pc # "id")
    /\ \A p \in Procesos : (alta[p].pc = "serie") ~> (alta[p].pc # "serie")
    /\ [][\A p \in Procesos :
            /\ (alta[p].pc = "id" /\ alta'[p].pc # "id")
                  => ~\E i \in DOMAIN catalogo :
                         catalogo[i].id_interno = alta'[p].id_interno
            /\ (alta[p].pc = "serie" /\ alta'[p].pc # "serie")
                  => ~\E i \in DOMAIN catalogo :
                         catalogo[i].numero_serie = alta'[p].numero_serie]_vars

\* a creation has left the id_interno loop after drawing a taken suffix,
\* the taken one belonging to a deactivated product
C19_Witness ==
    \E p \in Procesos :
        /\ alta[p].pc = "insertar"
        /\ alta[p].resultado = "reintento"
        /\ alta[p].numero_serie = "SN-1"
        /\ Len(catalogo) = 1
        /\ ~catalogo[1].activo
        /\ catalogo[1].id_interno # alta[p].id_interno

\* ------------------------------------------------------- Producto, lifecycle

\* C15 as stated: eliminar_producto removes no Producto record and on
\* success only sets activo to false; when the product has an active
\* assignment with null fecha_devolucion the request is rejected with a
\* BusinessLogicError and the product stays active; no inactive product has
\* an open active assignment.
C15_Original ==
    [][/\ Len(productos') >= Len(productos)
       /\ ultima'.vista = "eliminar_producto"
             => /\ \A p \in DOMAIN productos :
                      \/ productos'[p] = productos[p]
                      \/ /\ ultima'.resultado = "OK"
                         /\ p = ultima'.obj
                         /\ productos'[p] = [productos[p] EXCEPT !.activo = FALSE]
                /\ asignaciones_activas(asignaciones, ultima'.obj)
                      => /\ ultima'.resultado = "BusinessLogicError"
                         /\ productos' = productos
       /\ \A p \in DOMAIN productos' :
             asignaciones_activas(asignaciones', p) => productos'[p].activo]_vars

\* C16 as stated: every product created through agregar_producto has estado
\* DISPONIBLE right after its creation, whatever the creation form submits.
C16_Original ==
    (ultima.vista = "agregar_producto" /\ ultima.resultado = "OK")
        => productos[ultima.obj].estado = "DISPONIBLE"

\* -------------------------------------------------------------- SpecErrores
\* one request through a view wrapped by handle_errors: the wrapper calls the
\* view, the view returns or raises, get_error_details classifies what was
\* caught, the wrapper answers

ErrorTypes ==
    {"DATABASE_ERROR", "VALIDATION_ERROR", "PERMISSION_ERROR",
     "NOT_FOUND_ERROR", "BUSINESS_LOGIC_ERROR", "EXTERNAL_SERVICE_ERROR",
     "FILE_OPERATION_ERROR", "NETWORK_ERROR", "UNKNOWN_ERROR"}

\* the classes the views raise or run into and the classes get_error_details
\* tests for, each with its base classes
mro(clase) ==
    CASE clase = "BusinessLogicError" -> {"BusinessLogicError", "Exception"}
      [] clase = "Exception" -> {"Exception"}
      [] clase = "DatabaseError" -> {"DatabaseError", "Exception"}
      [] clase = "OperationalError" ->
            {"OperationalError", "DatabaseError", "Exception"}
      [] clase = "IntegrityError" ->
            {"IntegrityError", "DatabaseError", "Exception"}
      [] clase = "ValidationError" -> {"ValidationError", "Exception"}
      [] clase = "PermissionDenied" -> {"PermissionDenied", "Exception"}
      [] clase = "ObjectDoesNotExist" -> {"ObjectDoesNotExist", "Exception"}
      [] clase = "Http404" -> {"Http404", "Exception"}
      [] clase = "FileNotFoundError" ->
            {"FileNotFoundError", "OSError", "Exception"}
      [] clase = "PermissionError" ->
            {"PermissionError", "OSError", "Exception"}
      [] clase = "OSError" -> {"OSError", "Exception"}
      [] clase = "JSONDecodeError" ->
            {"JSONDecodeError", "ValueError", "Exception"}
      [] clase = "ValueError" -> {"ValueError", "Exception"}
      [] clase = "TypeError" -> {"TypeError", "Exception"}
      [] clase = "AttributeError" -> {"AttributeError", "Exception"}
      [] OTHER -> {}

Clases ==
    {"BusinessLogicError", "Exception", "DatabaseError", "OperationalError",
     "IntegrityError", "ValidationError", "PermissionDenied",
     "ObjectDoesNotExist", "Http404", "FileNotFoundError", "PermissionError",
     "OSError", "JSONDecodeError", "ValueError", "TypeError", "AttributeError"}

\* isinstance(exception, clases)
isinstance(clase, clases) == mro(clase) \cap clases # {}

\* str(exception) of the raised exceptions
Mensajes ==
    {"Esta asignacion ya fue confirmada", "Error al importar productos",
     "No se pudo exportar"}

\* "import" in str(exception).lower() or "export" in str(exception).lower()
import_o_export(mensaje) ==
    mensaje \in {"Error al importar productos", "No se pudo exportar"}

\* SystemError.get_error_details(exception)['type']
get_error_details(clase, mensaje) ==
    IF isinstance(clase, {"DatabaseError", "OperationalError"})
    THEN "DATABASE_ERROR"
    ELSE IF isinstance(clase, {"IntegrityError"}) THEN "DATABASE_ERROR"
    ELSE IF isinstance(clase, {"ValidationError"}) THEN "VALIDATION_ERROR"
    ELSE IF isinstance(clase, {"PermissionDenied"}) THEN "PERMISSION_ERROR"
    ELSE IF isinstance(clase, {"ObjectDoesNotExist"}) THEN "NOT_FOUND_ERROR"
    ELSE IF isinstance(clase, {"FileNotFoundError", "PermissionError", "OSError"})
    THEN "FILE_OPERATION_ERROR"
    ELSE IF import_o_export(mensaje) THEN "EXTERNAL_SERVICE_ERROR"
    ELSE IF isinstance(clase, {"ValueError"}) THEN "VALIDATION_ERROR"
    ELSE IF isinstance(clase, {"TypeError"}) THEN "BUSINESS_LOGIC_ERROR"
    ELSE "UNKNOWN_ERROR"

\* variant: only the decorator argument asks for JSON
responde_json_solo_argumento(ajax_response, cabecera) == ajax_response

\* ajax_response or
\* request.META.get('HTTP_X_REQUESTED_WITH') == 'XMLHttpRequest'
responde_json(ajax_response, cabecera) ==
    ajax_response \/ cabecera = "XMLHttpRequest"

\* every variable the error machine leaves alone
fuera_de_errores == << db, now, servidas, ultima, conc, etiquetas, catalogo, alta, tipo_producto >>

\* the decorator arguments in use, and the requests
Redirecciones == {"", "productos:lista_productos"}
Cabeceras == {"", "XMLHttpRequest", "fetch"}

\* wrapper(request, ...): the request arrives at the wrapped view; clase ""
\* stands for a view that raises nothing
e_peticion(ajax_response, redirect_on_error, cabecera, staff, clase, mensaje) ==
    /\ err.etapa = "idle"
    /\ err' = [err EXCEPT !.etapa = "vista", !.ajax_response = ajax_response,
                          !.redirect_on_error = redirect_on_error,
                          !.cabecera = cabecera, !.is_staff = staff,
                          !.clase = clase, !.mensaje = mensaje]
    /\ UNCHANGED fuera_de_errores

\* try: return view_func(request, *args, **kwargs) / except Exception as e
e_vista ==
    /\ err.etapa = "vista"
    /\ err' = IF err.clase = ""
              THEN [err EXCEPT !.etapa = "fin", !.respuesta = "vista",
                               !.status = 200]
              ELSE IF isinstance(err.clase, {"Exception"})
              THEN [err EXCEPT !.etapa = "except"]
              ELSE [err EXCEPT !.etapa = "fin", !.propagada = TRUE]
    /\ UNCHANGED fuera_de_errores

\* error_details = SystemError.get_error_details(e)
e_clasificar ==
    /\ err.etapa = "except"
    /\ err' = [err EXCEPT !.etapa = "responder",
                          !.error_type = get_error_details(err.clase, err.mensaje)]
    /\ UNCHANGED fuera_de_errores

\* lines 129-151: the JSON envelope, or messages.error and then the redirect
\* or the error page
e_responder ==
    /\ err.etapa = "responder"
    /\ err' = IF responde_json(err.ajax_response, err.cabecera)
              THEN [err EXCEPT !.etapa = "fin", !.respuesta = "json",
                       !.status = 500, !.success = FALSE,
                       !.technical_details =
                           IF err.is_staff THEN err.mensaje ELSE ""]
              ELSE IF err.redirect_on_error # ""
              THEN [err EXCEPT !.etapa = "fin", !.respuesta = "redirect",
                       !.status = 302, !.aviso = TRUE,
                       !.destino = err.redirect_on_error]
              ELSE [err EXCEPT !.etapa = "fin", !.respuesta = "error_page",
                       !.status = 500, !.aviso = TRUE,
                       !.technical_details =
                           IF err.is_staff THEN err.mensaje ELSE ""]
    /\ UNCHANGED fuera_de_errores

NextErrores ==
    \/ \E a \in BOOLEAN, r \in Redirecciones, c \in Cabeceras, s \in BOOLEAN :
          \/ e_peticion(a, r, c, s, "", "")
          \/ \E cl \in Clases, m \in Mensajes : e_peticion(a, r, c, s, cl, m)
    \/ e_vista
    \/ e_clasificar
    \/ e_responder

SpecErrores == Init /\ [][NextErrores]_vars

\* ------------------------------------------------------------ handle_errors

\* C17: whatever exception the wrapped view raises, the wrapper answers with
\* the JSON envelope (success false, status 500) when ajax_response is true
\* or the request carries X-Requested-With: XMLHttpRequest; otherwise with
\* a redirect to redirect_on_error and an error message when the argument
\* is given; otherwise with the error page and status 500; the exception
\* does not leave the wrapper
C17_Theorem ==
    (err.etapa = "fin" /\ err.clase # "")
        => /\ ~err.propagada
           /\ IF err.ajax_response \/ err.cabecera = "XMLHttpRequest"
              THEN err.respuesta = "json" /\ err.status = 500 /\ ~err.success
              ELSE IF err.redirect_on_error # ""
              THEN /\ err.respuesta = "redirect"
                   /\ err.destino = err.redirect_on_error
                   /\ err.aviso
              ELSE err.respuesta = "error_page" /\ err.status = 500

\* a view decorated with redirect_on_error raised a BusinessLogicError on a
\* request with the XMLHttpRequest header and was answered with JSON
C17_Witness ==
    /\ err.etapa = "fin"
    /\ err.clase = "BusinessLogicError"
    /\ ~err.ajax_response
    /\ err.redirect_on_error # ""
    /\ err.cabecera = "XMLHttpRequest"
    /\ err.respuesta = "json"

\* C18 as stated: get_error_details gives every exception exactly one bucket
\* of ErrorTypes, and a BusinessLogicError the bucket BUSINESS_LOGIC_ERROR.
C18_Original ==
    (err.etapa \in {"responder", "fin"} /\ err.clase # "")
        => /\ err.error_type \in ErrorTypes
           /\ isinstance(err.clase, {"BusinessLogicError"})
                 => err.error_type = "BUSINESS_LOGIC_ERROR"

\* ------------------------------------------------------------ SpecPegatinas
\* the sticker handlers and enviar_recordatorio, served among the requests
\* of Spec; pegatinas holds the PegatinasIdentificativas rows, active or not,
\* generaciones counts the generators that returned a sticker, by product
\* and type. The image renderers and the file storage are outside src/: a
\* renderer may refuse a product's data (fallan), in which case it raises
\* before its row is created; the storage is taken to store

\* every variable the sticker handlers leave alone
fuera_de_etiquetas == << db, now, conc, catalogo, alta, err, tipo_producto >>

\* EmpleadoReceptor.email: required and unique
email(empleado_id) ==
    << "uno@example.org", "dos@example.org", "tres@example.org" >>[empleado_id]

\* the order of the checkboxes in the form branch
ORDEN_TIPOS == << "QR", "CODIGO_BARRAS", "ETIQUETA_SIMPLE", "ETIQUETA_COMPLETA" >>

\* data.get('tipos', ['QR'])
data_get_tipos(cuerpo) == IF cuerpo.tiene_tipos THEN cuerpo.tipos ELSE << "QR" >>

\* lines 608-634: the list of types asked for; json.loads raises in the
\* first branch when the body is no JSON
tipos_pegatinas(peticion) ==
    IF peticion.content_type = "application/json"
    THEN IF peticion.cuerpo.json
         THEN [error |-> FALSE, tipos |-> data_get_tipos(peticion.cuerpo)]
         ELSE [error |-> TRUE, tipos |-> << >>]
    ELSE IF peticion.xhr
    THEN [error |-> FALSE,
          tipos |-> IF peticion.cuerpo.json
                    THEN data_get_tipos(peticion.cuerpo) ELSE << "QR" >>]
    ELSE LET marcado(t) == t \in peticion.marcados
             lista == SelectSeq(ORDEN_TIPOS, marcado)
         IN  [error |-> FALSE,
              tipos |-> IF lista = << >> THEN << "QR" >> ELSE lista]

\* lines 638-655: the types whose generator returned a sticker
pegatinas_generadas(tipos, fallan) ==
    LET generada(t) == t \in TIPOS_PEGATINA /\ t \notin fallan
    IN  SelectSeq(tipos, generada)

\* variant: no second active row for a product and type
PegatinasIdentificativas_create_sin_duplicar(filas, producto_id, tipo) ==
    IF \E i \in DOMAIN filas : /\ filas[i].producto = producto_id
                               /\ filas[i].tipo_pegatina = tipo
                               /\ filas[i].activa
    THEN filas
    ELSE Append(filas, [producto |-> producto_id, tipo_pegatina |-> tipo, activa |-> TRUE, impresa |-> FALSE])

\* PegatinasIdentificativas.objects.create(producto=producto,
\*     tipo_pegatina=..., codigo_generado=..., activa=True); impresa defaults
\* to False
PegatinasIdentificativas_create(filas, producto_id, tipo) ==
    Append(filas, [producto |-> producto_id, tipo_pegatina |-> tipo, activa |-> TRUE, impresa |-> FALSE])

\* the rows after the generators of the list have run, in order
RECURSIVE filas_tras_generar(_, _, _)
filas_tras_generar(filas, producto_id, generadas) ==
    IF generadas = << >> THEN filas
    ELSE filas_tras_generar(
             PegatinasIdentificativas_create(filas, producto_id, Head(generadas)),
             producto_id, Tail(generadas))

\* how many times a type is in the list
veces(generadas, tipo) ==
    Cardinality({i \in DOMAIN generadas : generadas[i] = tipo})

resultado_generacion(prods, metodo, producto_id, peticion) ==
    IF producto_id = 0 THEN "BusinessLogicError"
    ELSE IF ~existe_producto(prods, producto_id) THEN "BusinessLogicError"
    ELSE IF metodo # "POST" THEN "render"
    ELSE IF tipos_pegatinas(peticion).error THEN "error"
    ELSE IF pegatinas_generadas(tipos_pegatinas(peticion).tipos,
                                peticion.fallan) = << >>
    THEN "error"
    ELSE "OK"

generar_pegatinas(observada, usuario, metodo, producto_id, peticion) ==
    LET resultado == resultado_generacion(productos, metodo, producto_id, peticion)
        generadas == pegatinas_generadas(tipos_pegatinas(peticion).tipos,
                                         peticion.fallan)
    IN  /\ Registrar(observada,
               Respuesta("generar_pegatinas", metodo, resultado, producto_id,
                         usuario, "", "", ""))
        /\ IF resultado = "OK"
           THEN /\ pegatinas' = filas_tras_generar(pegatinas, producto_id, generadas)
                /\ generaciones' =
                       [k \in DOMAIN generaciones |->
                           IF k[1] = producto_id
                           THEN generaciones[k] + veces(generadas, k[2])
                           ELSE generaciones[k]]
           ELSE UNCHANGED etiquetas
        /\ UNCHANGED fuera_de_etiquetas

\* get_object_or_404(PegatinasIdentificativas, id=pegatina_id, activa=True)
existe_pegatina(filas, pegatina_id) ==
    pegatina_id \in DOMAIN filas /\ filas[pegatina_id].activa

resultado_pegatina(filas, metodo, pegatina_id) ==
    IF metodo # "POST" THEN "BusinessLogicError"
    ELSE IF pegatina_id = 0 THEN "BusinessLogicError"
    ELSE IF ~existe_pegatina(filas, pegatina_id) THEN "BusinessLogicError"
    ELSE "OK"

marcar_pegatina_impresa(observada, usuario, metodo, pegatina_id) ==
    LET resultado == resultado_pegatina(pegatinas, metodo, pegatina_id)
    IN  /\ Registrar(observada,
               Respuesta("marcar_pegatina_impresa", metodo, resultado,
                         pegatina_id, usuario, "", "", ""))
        /\ IF resultado = "OK"
           THEN pegatinas' = [pegatinas EXCEPT ![pegatina_id].impresa = TRUE]
           ELSE UNCHANGED pegatinas
        /\ UNCHANGED << generaciones, fuera_de_etiquetas >>

eliminar_pegatina(observada, usuario, metodo, pegatina_id) ==
    LET resultado == resultado_pegatina(pegatinas, metodo, pegatina_id)
    IN  /\ Registrar(observada,
               Respuesta("eliminar_pegatina", metodo, resultado, pegatina_id,
                         usuario, "", "", ""))
        /\ IF resultado = "OK"
           THEN pegatinas' = [pegatinas EXCEPT ![pegatina_id].activa = FALSE]
           ELSE UNCHANGED pegatinas
        /\ UNCHANGED << generaciones, fuera_de_etiquetas >>

\* envia: whether send_mail delivers or raises
resultado_recordatorio(asigs, metodo, asignacion_id, envia) ==
    IF metodo # "POST" THEN "405"
    ELSE IF asignacion_id = 0 THEN "ID_invalido"
    ELSE IF ~existe_asignacion(asigs, asignacion_id) THEN "error"
    ELSE IF asigs[asignacion_id].fecha_devolucion # NULL THEN "ya_devuelta"
    ELSE IF email(asigs[asignacion_id].empleado_receptor) = "" THEN "sin_email"
    ELSE IF ~envia THEN "error"
    ELSE "OK"

enviar_recordatorio(observada, usuario, metodo, asignacion_id, envia) ==
    /\ Registrar(observada,
           Respuesta("enviar_recordatorio", metodo,
                     resultado_recordatorio(asignaciones, metodo, asignacion_id, envia),
                     asignacion_id, usuario, "", "", ""))
    /\ UNCHANGED << etiquetas, fuera_de_etiquetas >>

\* request bodies: no JSON, JSON without 'tipos', JSON with a list of types
ListasTipos ==
    {<< >>, << "QR" >>, << "QR", "QR" >>, << "CODIGO_BARRAS", "QR" >>,
     << "OTRO" >>, << "OTRO", "ETIQUETA_SIMPLE" >>}

Cuerpos ==
    {[json |-> FALSE, tiene_tipos |-> FALSE, tipos |-> << >>],
     [json |-> TRUE, tiene_tipos |-> FALSE, tipos |-> << >>]}
    \cup {[json |-> TRUE, tiene_tipos |-> TRUE, tipos |-> l] : l \in ListasTipos}

PeticionesPegatinas ==
    [content_type : {"application/json", "application/x-www-form-urlencoded"},
     xhr : BOOLEAN,
     cuerpo : Cuerpos,
     marcados : {{}, {"QR"}, {"ETIQUETA_COMPLETA", "QR"}},
     fallan : {{}, {"CODIGO_BARRAS"}}]

\* the form of the lead-up requests: one checkbox
FormularioQR ==
    [content_type |-> "application/x-www-form-urlencoded", xhr |-> FALSE,
     cuerpo |-> [json |-> FALSE, tiene_tipos |-> FALSE, tipos |-> << >>],
     marcados |-> {"QR"}, fallan |-> {}]

PreviasPegatinas ==
    \/ /\ ultima = SinRespuesta
       /\ Len(pegatinas) < MaxPegatinas
       /\ \E id \in 1..MaxProductos :
             generar_pegatinas(FALSE, "admin", "POST", id, FormularioQR)
             /\ etiquetas' # etiquetas
    \/ /\ ultima = SinRespuesta
       /\ \E id \in 1..MaxPegatinas :
             marcar_pegatina_impresa(FALSE, "admin", "POST", id)
             /\ etiquetas' # etiquetas
    \/ /\ ultima = SinRespuesta
       /\ \E id \in 1..MaxPegatinas :
             eliminar_pegatina(FALSE, "admin", "POST", id)
             /\ etiquetas' # etiquetas

ObservadaPegatinas ==
    \/ /\ ultima = SinRespuesta
       /\ \E u \in Usuarios, id \in 0..MaxProductos :
             generar_pegatinas(TRUE, u, "GET", id, FormularioQR)
    \/ /\ ultima = SinRespuesta
       /\ \E u \in Usuarios, id \in 0..MaxProductos, r \in PeticionesPegatinas :
             generar_pegatinas(TRUE, u, "POST", id, r)
    \/ /\ ultima = SinRespuesta
       /\ \E u \in Usuarios, m \in Metodos, id \in 0..MaxPegatinas :
             marcar_pegatina_impresa(TRUE, u, m, id)
    \/ /\ ultima = SinRespuesta
       /\ \E u \in Usuarios, m \in Metodos, id \in 0..MaxPegatinas :
             eliminar_pegatina(TRUE, u, m, id)
    \/ /\ ultima = SinRespuesta
       /\ \E u \in Usuarios, m \in Metodos, id \in 0..MaxAsignaciones, envia \in BOOLEAN :
             enviar_recordatorio(TRUE, u, m, id, envia)

NextPegatinas ==
    \/ Previas
    \/ Observada
    \/ PreviasPegatinas
    \/ ObservadaPegatinas

SpecPegatinas == Init /\ [][NextPegatinas]_vars

\* ------------------------------------------------------ stickers, reminders

\* the rows of a product and type
filas_de(filas, producto_id, tipo) ==
    {i \in DOMAIN filas : /\ filas[i].producto = producto_id
                          /\ filas[i].tipo_pegatina = tipo}

\* C14: a recorded request that changes the estado of some product is an
\* accepted assignment creation, return or product edit; confirmar_asignacion,
\* enviar_recordatorio, eliminar_producto, the sticker handlers and every
\* rejected request leave every estado as it was
C14_Theorem ==
    [][(/\ ultima' # SinRespuesta
        /\ \E p \in DOMAIN productos : productos'[p].estado # productos[p].estado)
          => /\ ultima'.vista \in {"agregar_asignacion", "devolver_producto",
                                   "editar_producto"}
             /\ ultima'.resultado = "OK"]_vars

\* a sticker of a delivered product was deleted, the product's open
\* assignment and estado untouched
C14_Witness ==
    /\ ultima.vista = "eliminar_pegatina"
    /\ ultima.resultado = "OK"
    /\ ~pegatinas[ultima.obj].activa
    /\ productos[pegatinas[ultima.obj].producto].estado = "ENTREGADO"
    /\ asignaciones_activas(asignaciones, pegatinas[ultima.obj].producto)

C25_Original ==
    devolucion_lograda
        => asignaciones[ultima.obj].fecha_devolucion
               = make_aware(strptime(ultima.fecha))

\* C26: confirmar_asignacion on a returned assignment is refused with a
\* BusinessLogicError and changes nothing, so no assignment becomes confirmed
\* once it is returned; a confirmation, with its date, stays through every
\* later request
C26_Theorem ==
    [][/\ \A i \in DOMAIN asignaciones :
             /\ asignaciones[i].confirmado_empleado
                   => /\ asignaciones'[i].confirmado_empleado
                      /\ asignaciones[i].fecha_confirmacion_empleado # NULL
                      /\ asignaciones'[i].fecha_confirmacion_empleado
                             = asignaciones[i].fecha_confirmacion_empleado
             /\ (asignaciones[i].fecha_devolucion # NULL
                    /\ ~asignaciones[i].confirmado_empleado)
                   => ~asignaciones'[i].confirmado_empleado
       /\ (/\ ultima'.vista = "confirmar_asignacion"
           /\ ultima'.obj \in DOMAIN asignaciones
           /\ asignaciones[ultima'.obj].fecha_devolucion # NULL)
             => (ultima'.resultado = "BusinessLogicError" /\ UNCHANGED db)]_vars

\* a confirmation of a returned, unconfirmed assignment was refused
C26_Witness ==
    /\ ultima.vista = "confirmar_asignacion"
    /\ ultima.metodo = "POST"
    /\ ultima.resultado = "BusinessLogicError"
    /\ ultima.obj \in DOMAIN asignaciones
    /\ asignaciones[ultima.obj].fecha_devolucion # NULL
    /\ ~asignaciones[ultima.obj].confirmado_empleado

\* C27: a successful devolver_producto appends one MovimientoStock row for
\* the returned product, BAJA for the condition AVERIADO and TRANSFERENCIA
\* otherwise, with the assignment's department as ubicacion_origen; a
\* refused return appends none
C27_Theorem ==
    [][ultima'.vista = "devolver_producto"
          => IF ultima'.resultado = "OK"
             THEN /\ Len(movimientos') = Len(movimientos) + 1
                  /\ SubSeq(movimientos', 1, Len(movimientos)) = movimientos
                  /\ LET m == movimientos'[Len(movimientos')]
                         a == asignaciones[ultima'.obj]
                     IN  /\ m.producto = a.producto
                         /\ m.ubicacion_origen = a.departamento
                         /\ m.tipo_movimiento =
                               IF ultima'.estado = "AVERIADO" THEN "BAJA"
                               ELSE "TRANSFERENCIA"
             ELSE movimientos' = movimientos]_vars

\* a second return, of a broken product, was recorded as a BAJA after an
\* earlier return recorded as a TRANSFERENCIA
C27_Witness ==
    /\ devolucion_lograda
    /\ ultima.estado = "AVERIADO"
    /\ Len(movimientos) = 2
    /\ movimientos[1].tipo_movimiento = "TRANSFERENCIA"
    /\ movimientos[2].tipo_movimiento = "BAJA"
    /\ movimientos[2].producto = asignaciones[ultima.obj].producto

\* C28 as stated: when a return leaves the product DISPONIBLE the movement's
\* ubicacion_destino is 'Almacén', and when it leaves it AVERIADO or
\* MANTENIMIENTO the destination is 'Taller'.
C28_Original ==
    devolucion_lograda
        => LET m == movimientos[Len(movimientos)]
           IN  /\ producto_devolucion.estado = "DISPONIBLE"
                     => m.ubicacion_destino = "Almacen"
               /\ producto_devolucion.estado \in {"AVERIADO", "MANTENIMIENTO"}
                     => m.ubicacion_destino = "Taller"

\* ------------------------------------------------------- assignments, more

\* the request names a product, department or employee that is missing or
\* inactive, or an employee of another department
referencia_invalida(prods, POST) ==
    LET producto_id == safe_int_conversion(POST.producto)
        departamento_id == safe_int_conversion(POST.departamento)
        empleado_id == safe_int_conversion(POST.empleado)
    IN  \/ ~objetos_encontrados(prods, producto_id, departamento_id, empleado_id)
        \/ EmpleadoReceptor[empleado_id].departamento # departamento_id

\* the new assignment record references active rows, the employee being of
\* the record's department
referencias_activas ==
    Len(asignaciones') = Len(asignaciones) + 1
        => LET a == asignaciones'[Len(asignaciones')]
           IN  /\ existe_producto(productos, a.producto)
               /\ Departamento[a.departamento].activo
               /\ EmpleadoReceptor[a.empleado_receptor].activo
               /\ EmpleadoReceptor[a.empleado_receptor].departamento = a.departamento

\* the requests that agree with the recorded one in product, type and date
peticiones_registradas ==
    {r \in [producto : {"1", "2", "x"}, departamento : {"1", "2"},
            empleado : {"1", "3"}, tipo_asignacion : {ultima'.tipo},
            fecha_entrega : {ultima'.fecha}] :
        /\ r \in PeticionesAsignacion
        /\ safe_int_conversion(r.producto) = ultima'.obj}

EntregasCiclo ==
    [producto : {"1", "2"}, departamento : {"1"}, empleado : {"1"},
     tipo_asignacion : {"ENTREGA", "PRESTAMO", "REPARACION"},
     fecha_entrega : {FechasTexto[i] : i \in 1..(date(MaxNow) + 1)}]

RetornosCiclo ==
    [fecha_devolucion : {FechasTexto[i] : i \in 1..(date(MaxNow) + 1)},
     estado_producto : {"AVERIADO", "MANTENIMIENTO", "DISPONIBLE", "USADO_BUENO"},
     observaciones_devolucion : {""},
     motivo_devolucion : {"AVERIA"}]

NextCiclo ==
    \/ \E f \in Altas : agregar_producto(FALSE, "admin", "POST", f) /\ db' # db
    \/ \E r \in EntregasCiclo :
          agregar_asignacion(FALSE, "admin", "POST", r) /\ db' # db
    \/ \E id \in 1..MaxAsignaciones, r \in RetornosCiclo :
          devolver_producto(FALSE, "admin", "POST", id, r) /\ db' # db
    \/ \E id \in 1..MaxAsignaciones :
          confirmar_asignacion(FALSE, "admin", "POST", id) /\ db' # db
    \/ Tick

SpecCiclo == Init /\ [][NextCiclo]_vars

\* C21: with products created DISPONIBLE and never edited, and the three
\* assignment handlers served one at a time, a product's estado is ENTREGADO
\* exactly when it has an active ENTREGA or PRESTAMO assignment whose
\* fecha_devolucion is null
C21_Theorem ==
    \A p \in DOMAIN productos :
        productos[p].estado = "ENTREGADO"
            <=> \E i \in abiertas(p) :
                    asignaciones[i].tipo_asignacion \in {"ENTREGA", "PRESTAMO"}

\* a product was delivered, returned and then lent: it is ENTREGADO with one
\* returned ENTREGA and one open PRESTAMO
C21_Witness ==
    /\ Len(asignaciones) = 2
    /\ asignaciones[1].producto = asignaciones[2].producto
    /\ asignaciones[1].tipo_asignacion = "ENTREGA"
    /\ asignaciones[1].fecha_devolucion # NULL
    /\ asignaciones[2].tipo_asignacion = "PRESTAMO"
    /\ asignaciones[2].fecha_devolucion = NULL
    /\ productos[asignaciones[2].producto].estado = "ENTREGADO"

\* ----------------------------------------------------------------- SpecSerie
\* TipoProducto.generar_numero_serie(), called by requests that each hold
\* their own copy of the row; the statements of the requests interleave as
\* the server runs them

MaxNumero == 3

fuera_de_serie == << db, now, servidas, ultima, etiquetas, catalogo, alta, err >>

\* the decimal digits of n
RECURSIVE cifras(_)
cifras(n) == IF n < 10 THEN << n >> ELSE Append(cifras(n \div 10), n % 10)

\* f"{n:04d}": the digits, padded with zeros on the left up to four
RECURSIVE rellenar(_, _)
rellenar(c, ancho) == IF Len(c) >= ancho THEN c ELSE rellenar(<< 0 >> \o c, ancho)

\* f"{self.codigo_prefijo}{self.ultimo_numero:04d}"
numero_serie(tipo) ==
    [prefijo |-> tipo.codigo_prefijo, cifras |-> rellenar(cifras(tipo.ultimo_numero), 4)]

\* the request loads the row: TipoProducto.objects.get(...)
s_cargar(p) ==
    /\ pc[p] = "idle"
    /\ pc' = [pc EXCEPT ![p] = "cargado"]
    /\ loc' = [loc EXCEPT ![p].tipo = tipo_producto]
    /\ UNCHANGED << tipo_producto, fuera_de_serie >>

\* generar_numero_serie, first statement: self.ultimo_numero += 1
s_incrementar(p) ==
    /\ pc[p] = "cargado"
    /\ tipo_producto.ultimo_numero < MaxNumero
    /\ loc[p].tipo.ultimo_numero < MaxNumero
    /\ pc' = [pc EXCEPT ![p] = "incrementado"]
    /\ loc' = [loc EXCEPT ![p].tipo.ultimo_numero = @ + 1]
    /\ UNCHANGED << tipo_producto, fuera_de_serie >>

\* generar_numero_serie, the rest: self.save() writes the whole row, and the
\* formatted serial is returned
s_guardar(p) ==
    /\ pc[p] = "incrementado"
    /\ tipo_producto' = loc[p].tipo
    /\ pc' = [pc EXCEPT ![p] = "cargado"]
    /\ loc' = [loc EXCEPT ![p].series = Append(@, numero_serie(loc[p].tipo))]
    /\ UNCHANGED fuera_de_serie

\* the request ends and its copy of the row is dropped
s_terminar(p) ==
    /\ pc[p] = "cargado"
    /\ pc' = [pc EXCEPT ![p] = "idle"]
    /\ UNCHANGED << loc, tipo_producto, fuera_de_serie >>

InitSerie ==
    /\ productos = << >>
    /\ asignaciones = << >>
    /\ movimientos = << >>
    /\ now = 0
    /\ servidas = 0
    /\ ultima = SinRespuesta
    /\ pc = [p \in Procesos |-> "idle"]
    /\ InitAparte
    /\ loc = [p \in Procesos |-> [tipo |-> tipo_producto, series |-> << >>]]

NextSerie ==
    \E p \in Procesos :
        \/ s_cargar(p)
        \/ s_incrementar(p)
        \/ s_guardar(p)
        \/ s_terminar(p)

SpecSerie == InitSerie /\ [][NextSerie]_vars

\* C30: generar_numero_serie never returns the same serial twice for one
\* product type, and the stored ultimo_numero has been raised by exactly one
\* for each call that returned
C30_Original ==
    /\ \A p, q \in Procesos :
           \A i \in DOMAIN loc[p].series, j \in DOMAIN loc[q].series :
               loc[p].series[i] = loc[q].series[j] => (p = q /\ i = j)
    /\ tipo_producto.ultimo_numero = Len(loc[1].series) + Len(loc[2].series)

\* ------------------------------------------------------------------- SpecDev
\* devolver_producto and confirmar_asignacion statement by statement: each
\* request loads its own copy of the rows and writes whole rows back, and the
\* server runs the statements of two requests in any order; no view opens a
\* transaction

\* the forms of the returns
RetornosDev ==
    [fecha_devolucion : {FechasTexto[1]},
     estado_producto : {"AVERIADO", "MANTENIMIENTO", "DISPONIBLE"},
     observaciones_devolucion : {""},
     motivo_devolucion : {"AVERIA"}]

\* what an in-flight request holds before it starts
SinPeticionDev ==
    [vista |-> "", usuario |-> "", id |-> 0, POST |-> SinDevolucion,
     resultado |-> "",
     asignacion |-> nueva_asignacion(0, [condicion |-> ""], 0, 0, "", 0, ""),
     producto |-> [estado |-> "", condicion |-> "", activo |-> FALSE]]

\* the request ends with the given outcome
d_terminar(p, resultado) ==
    /\ pc' = [pc EXCEPT ![p] = "done"]
    /\ loc' = [loc EXCEPT ![p].resultado = resultado]

\* devolver_producto (315-354): get_object_or_404 loads the row, and the
\* checks of the view run on the loaded copy
d_inicio(p, usuario, asignacion_id, POST) ==
    LET resultado == resultado_devolucion(asignaciones, "POST", asignacion_id, POST)
        peticion == [SinPeticionDev EXCEPT
                        !.vista = "devolver_producto", !.usuario = usuario,
                        !.id = asignacion_id, !.POST = POST,
                        !.resultado = resultado]
    IN  /\ pc[p] = "idle"
        /\ IF resultado = "OK"
           THEN /\ pc' = [pc EXCEPT ![p] = "d_producto"]
                /\ loc' = [loc EXCEPT ![p] =
                       [peticion EXCEPT
                           !.resultado = "",
                           !.asignacion = marcar_devolucion(
                               [asignaciones[asignacion_id] EXCEPT
                                   !.fecha_devolucion =
                                       make_aware(strptime(POST.fecha_devolucion))],
                               now, usuario, strip(POST.motivo_devolucion),
                               strip(POST.observaciones_devolucion),
                               POST.estado_producto)]]
           ELSE /\ pc' = [pc EXCEPT ![p] = "done"]
                /\ loc' = [loc EXCEPT ![p] = peticion]
        /\ UNCHANGED << db, now, servidas, ultima, aparte >>

\* marcar_devolucion (208-213): self.producto loads the product row, and the
\* estado is set on the copy
d_producto(p) ==
    /\ pc[p] = "d_producto"
    /\ pc' = [pc EXCEPT ![p] = "d_guardar_producto"]
    /\ loc' = [loc EXCEPT ![p].producto =
                   producto_devuelto(productos[loc[p].asignacion.producto],
                                     loc[p].POST.estado_producto)]
    /\ UNCHANGED << db, now, servidas, ultima, aparte >>

\* marcar_devolucion (215): self.producto.save() writes the product row
d_guardar_producto(p) ==
    /\ pc[p] = "d_guardar_producto"
    /\ productos' = Producto_save(productos, loc[p].asignacion.producto,
                                  loc[p].producto)
    /\ pc' = [pc EXCEPT ![p] = "d_guardar"]
    /\ UNCHANGED << asignaciones, movimientos, loc, now, servidas, ultima, aparte >>

\* marcar_devolucion (217): self.save() writes the assignment row, every
\* column from the copy
d_guardar(p) ==
    /\ pc[p] = "d_guardar"
    /\ asignaciones' = [asignaciones EXCEPT ![loc[p].id] = loc[p].asignacion]
    /\ pc' = [pc EXCEPT ![p] = "d_movimiento"]
    /\ UNCHANGED << productos, movimientos, loc, now, servidas, ultima, aparte >>

\* devolver_producto (363-377): MovimientoStock.objects.create(...), and the
\* request ends
d_movimiento(p) ==
    /\ pc[p] = "d_movimiento"
    /\ movimientos' = Append(movimientos,
           movimiento_devolucion(loc[p].asignacion, loc[p].usuario,
                                 loc[p].POST.estado_producto))
    /\ d_terminar(p, "OK")
    /\ UNCHANGED << productos, asignaciones, now, servidas, ultima, aparte >>

\* the statement about to run raises (the database refuses the write, or the
\* connection is lost): handle_errors answers the request, and what the
\* earlier statements wrote stays written
d_fallo(p) ==
    /\ pc[p] \in {"d_guardar", "d_movimiento"}
    /\ d_terminar(p, "error")
    /\ UNCHANGED << db, now, servidas, ultima, aparte >>

\* confirmar_asignacion (388-407): get_object_or_404 loads the row, and the
\* checks of the view run on the loaded copy
k_inicio(p, usuario, asignacion_id) ==
    LET resultado == resultado_confirmacion(asignaciones, "POST", asignacion_id)
        peticion == [SinPeticionDev EXCEPT
                        !.vista = "confirmar_asignacion", !.usuario = usuario,
                        !.id = asignacion_id, !.resultado = resultado]
    IN  /\ pc[p] = "idle"
        /\ IF resultado = "OK"
           THEN /\ pc' = [pc EXCEPT ![p] = "k_guardar"]
                /\ loc' = [loc EXCEPT ![p] =
                       [peticion EXCEPT
                           !.resultado = "",
                           !.asignacion =
                               [asignaciones[asignacion_id] EXCEPT
                                   !.confirmado_empleado = TRUE,
                                   !.fecha_confirmacion_empleado = now]]]
           ELSE /\ pc' = [pc EXCEPT ![p] = "done"]
                /\ loc' = [loc EXCEPT ![p] = peticion]
        /\ UNCHANGED << db, now, servidas, ultima, aparte >>

\* confirmar_asignacion (411-413): asignacion.save() writes the assignment
\* row, every column from the copy, and the request ends
k_guardar(p) ==
    /\ pc[p] = "k_guardar"
    /\ asignaciones' = [asignaciones EXCEPT ![loc[p].id] = loc[p].asignacion]
    /\ d_terminar(p, "OK")
    /\ UNCHANGED << productos, movimientos, now, servidas, ultima, aparte >>

\* product 1 stands delivered under assignment 1, as agregar_asignacion
\* leaves them
InitDev ==
    /\ productos = << [estado |-> "ENTREGADO", condicion |-> "NUEVO",
                       activo |-> TRUE] >>
    /\ asignaciones = << nueva_asignacion(1, [condicion |-> "NUEVO"], 1, 1,
                                          "ENTREGA", 0, "admin") >>
    /\ movimientos = << >>
    /\ now = 0
    /\ servidas = 0
    /\ ultima = SinRespuesta
    /\ pc = [p \in Procesos |-> "idle"]
    /\ loc = [p \in Procesos |-> SinPeticionDev]
    /\ InitAparte

NextDev ==
    \E p \in Procesos :
        \/ \E u \in Usuarios, id \in 1..MaxAsignaciones, r \in RetornosDev :
               d_inicio(p, u, id, r)
        \/ d_producto(p)
        \/ d_guardar_producto(p)
        \/ d_guardar(p)
        \/ d_movimiento(p)
        \/ d_fallo(p)
        \/ \E u \in Usuarios, id \in 1..MaxAsignaciones : k_inicio(p, u, id)
        \/ k_guardar(p)

SpecDev == InitDev /\ [][NextDev]_vars

\* the devolver_producto requests that have written the product's estado for
\* the assignment, whether still running or ended
devoluciones_realizadas(asignacion_id) ==
    {p \in Procesos :
        /\ loc[p].vista = "devolver_producto"
        /\ loc[p].id = asignacion_id
        /\ \/ pc[p] \in {"d_guardar", "d_movimiento"}
           \/ pc[p] = "done" /\ loc[p].resultado \in {"OK", "error"}}

\* C22: once a devolver_producto request has stored the return of an
\* assignment, the stored row keeps its fecha_devolucion and its
\* estado_producto_devolucion, whatever a confirmar_asignacion request on the
\* same assignment writes and in whatever order the two run
C22_Original ==
    \A p \in Procesos :
        (/\ loc[p].vista = "devolver_producto"
         /\ pc[p] = "done"
         /\ loc[p].resultado = "OK")
        => /\ asignaciones[loc[p].id].fecha_devolucion # NULL
           /\ asignaciones[loc[p].id].estado_producto_devolucion # ""

\* C23: of two devolver_producto POST requests for the same open assignment
\* at most one performs the return, and at most one MovimientoStock row of a
\* return is recorded for the assignment
C23_Original ==
    \A i \in DOMAIN asignaciones :
        /\ Cardinality(devoluciones_realizadas(i)) <= 1
        /\ Cardinality({m \in DOMAIN movimientos :
                            movimientos[m].producto = asignaciones[i].producto}) <= 1

\* C24: a return is all or nothing: when no request is running (also after a
\* devolver_producto request failed between two of its writes) the product's
\* estado has been changed by the return exactly if the assignment's
\* fecha_devolucion is stored and the MovimientoStock row of the return exists
C24_Original ==
    (/\ \A p \in Procesos : pc[p] \in {"idle", "done"}
     /\ \A p \in Procesos : loc[p].vista # "confirmar_asignacion")
    => (productos[1].estado # "ENTREGADO"
        <=> (asignaciones[1].fecha_devolucion # NULL /\ Len(movimientos) >= 1))

====
